---- MODULE Spec2Model ----
(***************************************************************************)
(* AstroPsyche response analysis: the four keyword-based analyzers of the  *)
(* repository (analyzeResponse of EnhancedPsychQuestionnaire, of           *)
(* PsychologicalQuestionnaire and of PsychologySession, analyzeUserResponse*)
(* of ConversationalAIService), modelled on JavaScript strings.            *)
(*                                                                         *)
(* Strings are TLA+ strings; a character is a string of length 1.          *)
(* Tone values are kept in hundredths (0..100): the code returns           *)
(* Math.round(x * 100) / 100, the model keeps Math.round(x * 100).         *)
(* Ratios are kept exact (numerator, denominator) until that rounding.     *)
(***************************************************************************)
EXTENDS Integers, Sequences, FiniteSets, TLC

\* the analyzers: the input of a call, which analyzer was called, its result
\* (and a second input and result, for two calls)
VARIABLES text, variant, result, text2, result2

\* the aggregator: the answers of a session (and of a second session), the
\* side of their averages, the consent flag, the clock, the profiles returned
VARIABLES answers, answers2, drift, drift2, allowDataUsage, clock, profile, profile2

analyzerVars == <<text, variant, result, text2, result2>>

aggregatorVars ==
  <<answers, answers2, drift, drift2, allowDataUsage, clock, profile, profile2>>

\* a questionnaire run: the component that is mounted, the text of its input,
\* the calls and timers awaited, and what onComplete was handed
VARIABLES flow, supabase, mounted, currentAnswer, pending, delivered

\* the questionnaire components: the questions, the index of the current
\* question, the answers of the session, the submitting flag, and the number
\* of runs of the profile step
VARIABLES questions, currentQuestionIndex, responses, isSubmitting, profileRuns

\* the conversation component: the conversation state, the messages on
\* display, the loading and typing flags, and the error shown ("" for none)
VARIABLES conversationState, messages, isLoading, isTyping, error

questionnaireVars ==
  <<questions, currentQuestionIndex, responses, isSubmitting, profileRuns>>

conversationVars == <<conversationState, messages, isLoading, isTyping, error>>

flowVars ==
  <<flow, supabase, mounted, currentAnswer, pending, delivered, questionnaireVars,
    conversationVars>>

\* the app store of stateManager, the calls of handleAsyncError that are
\* running, the user of useAuth, the local storage of the browser, the tables
\* of the database with the calls that reached it, the reports
\* generateFinalReport returned, and Date.now()
VARIABLES appStore, asyncCalls, authUser, localStorage, database, reports, dateNow

appVars == <<appStore, asyncCalls, authUser, localStorage, database, reports, dateNow>>

vars == <<analyzerVars, aggregatorVars, flowVars, appVars>>

\* ------------------------------------------------------------------------
\* Bounds of the explored inputs
\* ------------------------------------------------------------------------

\* longest input, in vocabulary words joined by one separator
MaxWords == 3

\* largest number of filler words appended to a one-word input
MaxPad == 31

\* longest session given to the aggregator
MaxAnswers == 3

\* longest session when two sessions are aggregated
MaxPairAnswers == 2

\* milliseconds the clock can advance
MaxClock == 2

\* submissions accepted in one questionnaire run
MaxSubmissions == 10

\* most question templates a session is initialised with
MaxTemplates == 8

\* most inserts a session waits for at once
MaxInFlight == 2

\* the largest step of the app flow and of its form that is explored
MaxStep == 2

\* the largest number of handleAsyncError calls running at the same time
MaxAsync == 1

\* the largest number of generateFinalReport calls in a run
MaxReports == 2

\* ------------------------------------------------------------------------
\* JavaScript string primitives
\* ------------------------------------------------------------------------

CharAt(s, i) == SubSeq(s, i, i)

\* String.prototype.toLowerCase, on one character (ASCII letters)
LowerChar(c) ==
  CASE c = "A" -> "a" [] c = "B" -> "b" [] c = "C" -> "c" [] c = "D" -> "d"
    [] c = "E" -> "e" [] c = "F" -> "f" [] c = "G" -> "g" [] c = "H" -> "h"
    [] c = "I" -> "i" [] c = "J" -> "j" [] c = "K" -> "k" [] c = "L" -> "l"
    [] c = "M" -> "m" [] c = "N" -> "n" [] c = "O" -> "o" [] c = "P" -> "p"
    [] c = "Q" -> "q" [] c = "R" -> "r" [] c = "S" -> "s" [] c = "T" -> "t"
    [] c = "U" -> "u" [] c = "V" -> "v" [] c = "W" -> "w" [] c = "X" -> "x"
    [] c = "Y" -> "y" [] c = "Z" -> "z" [] OTHER -> c

\* String.prototype.toLowerCase: every character lowered, in place (the string
\* is lowered by halves, which keeps the evaluation shallow)
RECURSIVE ToLowerCase(_)
ToLowerCase(s) ==
  IF Len(s) = 0 THEN ""
  ELSE IF Len(s) = 1 THEN LowerChar(s)
  ELSE ToLowerCase(SubSeq(s, 1, Len(s) \div 2))
         \o ToLowerCase(SubSeq(s, Len(s) \div 2 + 1, Len(s)))

\* the characters the regular expression \s matches, among those of the inputs
IsWhitespace(c) == c \in {" ", "\t", "\n"}

RECURSIVE DropWhitespace(_)
DropWhitespace(s) ==
  IF s # "" /\ IsWhitespace(CharAt(s, 1))
  THEN DropWhitespace(SubSeq(s, 2, Len(s)))
  ELSE s

\* the k-th smallest element of a set of positions
KthPosition(positions, k) ==
  CHOOSE p \in positions : Cardinality({q \in positions : q < p}) = k - 1

\* the pieces of s between separators, the k-th separator running from the
\* k-th position of starts to the k-th position of ends; with n separators
\* there are n + 1 pieces, the empty ones included
Pieces(s, starts, ends) ==
  LET n == Cardinality(starts)
  IN  [k \in 1..(n + 1) |->
         SubSeq(s,
                IF k = 1 THEN 1 ELSE KthPosition(ends, k - 1) + 1,
                IF k = n + 1 THEN Len(s) ELSE KthPosition(starts, k) - 1)]

\* s.split(/\s+/): the pieces between maximal runs of whitespace; a leading or
\* trailing run leaves an empty piece, and "" splits into [""]
SplitWhitespace(s) ==
  LET ws == {i \in 1..Len(s) : IsWhitespace(CharAt(s, i))}
  IN  Pieces(s, {i \in ws : (i - 1) \notin ws}, {i \in ws : (i + 1) \notin ws})

\* s.split(' '): the pieces between single space characters, empty ones kept
SplitSpace(s) ==
  LET spaces == {i \in 1..Len(s) : CharAt(s, i) = " "}
  IN  Pieces(s, spaces, spaces)

\* words.filter(word => word.length > 0)
FilterNonEmpty(ws) == SelectSeq(ws, LAMBDA w : Len(w) > 0)

\* word.includes(keyword)
Includes(word, keyword) ==
  \E i \in 1..(Len(word) - Len(keyword) + 1) :
    SubSeq(word, i, i + Len(keyword) - 1) = keyword

\* s.trim()
RECURSIVE TrimEnd(_)
TrimEnd(s) ==
  IF s # "" /\ IsWhitespace(CharAt(s, Len(s)))
  THEN TrimEnd(SubSeq(s, 1, Len(s) - 1))
  ELSE s

Trim(s) == TrimEnd(DropWhitespace(s))

\* ------------------------------------------------------------------------
\* Keyword tables, in the insertion order of the object literals
\* ------------------------------------------------------------------------

\* EnhancedPsychQuestionnaire.analyzeResponse: emotionKeywords
EnhancedEmotionKeywords ==
  << [emotion |-> "joy", keywords |->
       <<"happy", "excited", "love", "amazing", "wonderful", "great",
         "fantastic", "joy", "delighted", "thrilled", "passionate">>],
     [emotion |-> "sadness", keywords |->
       <<"sad", "disappointed", "hurt", "lonely", "depressed", "down",
         "melancholy", "grief", "loss", "empty">>],
     [emotion |-> "anger", keywords |->
       <<"angry", "frustrated", "annoyed", "mad", "furious", "irritated",
         "rage", "upset", "resentful", "bitter">>],
     [emotion |-> "fear", keywords |->
       <<"scared", "worried", "anxious", "nervous", "afraid", "concerned",
         "terrified", "panic", "overwhelmed">>],
     [emotion |-> "surprise", keywords |->
       <<"surprised", "shocked", "unexpected", "amazed", "wow", "astonished",
         "stunned", "bewildered">>],
     [emotion |-> "contemplative", keywords |->
       <<"think", "reflect", "consider", "ponder", "wonder", "contemplate",
         "introspect", "analyze", "understand">>],
     [emotion |-> "confident", keywords |->
       <<"confident", "sure", "certain", "believe", "know", "trust", "strong",
         "capable", "determined">>],
     [emotion |-> "vulnerable", keywords |->
       <<"vulnerable", "uncertain", "confused", "lost", "struggling",
         "questioning", "doubt", "insecure">>],
     [emotion |-> "neutral", keywords |->
       <<"okay", "fine", "normal", "usual", "regular", "alright", "standard",
         "typical">>] >>

\* PsychologicalQuestionnaire.analyzeResponse: emotionKeywords
PsychologicalEmotionKeywords ==
  << [emotion |-> "joy", keywords |->
       <<"happy", "excited", "love", "amazing", "wonderful", "great",
         "fantastic", "joy", "delighted">>],
     [emotion |-> "sadness", keywords |->
       <<"sad", "disappointed", "hurt", "lonely", "depressed", "down",
         "melancholy", "grief">>],
     [emotion |-> "anger", keywords |->
       <<"angry", "frustrated", "annoyed", "mad", "furious", "irritated",
         "rage", "upset">>],
     [emotion |-> "fear", keywords |->
       <<"scared", "worried", "anxious", "nervous", "afraid", "concerned",
         "terrified", "panic">>],
     [emotion |-> "surprise", keywords |->
       <<"surprised", "shocked", "unexpected", "amazed", "wow", "astonished">>],
     [emotion |-> "contemplative", keywords |->
       <<"think", "reflect", "consider", "ponder", "wonder", "contemplate",
         "introspect">>],
     [emotion |-> "neutral", keywords |->
       <<"okay", "fine", "normal", "usual", "regular", "alright", "standard">>] >>

\* PsychologySession.analyzeResponse: emotionKeywords
SessionEmotionKeywords ==
  << [emotion |-> "joy", keywords |->
       <<"happy", "excited", "love", "amazing", "wonderful", "great">>],
     [emotion |-> "sadness", keywords |->
       <<"sad", "disappointed", "hurt", "lonely", "depressed">>],
     [emotion |-> "anger", keywords |->
       <<"angry", "frustrated", "annoyed", "mad", "furious">>],
     [emotion |-> "fear", keywords |->
       <<"scared", "worried", "anxious", "nervous", "afraid">>],
     [emotion |-> "surprise", keywords |->
       <<"surprised", "shocked", "unexpected", "amazed">>],
     [emotion |-> "neutral", keywords |->
       <<"okay", "fine", "normal", "usual", "regular">>] >>

\* ConversationalAIService.analyzeUserResponse: emotionKeywords
ConversationalEmotionKeywords ==
  << [emotion |-> "joy", keywords |->
       <<"happy", "excited", "love", "amazing", "wonderful", "great",
         "fantastic">>],
     [emotion |-> "sadness", keywords |->
       <<"sad", "disappointed", "hurt", "lonely", "depressed", "down">>],
     [emotion |-> "anger", keywords |->
       <<"angry", "frustrated", "annoyed", "mad", "furious", "irritated">>],
     [emotion |-> "fear", keywords |->
       <<"scared", "worried", "anxious", "nervous", "afraid", "concerned">>],
     [emotion |-> "surprise", keywords |->
       <<"surprised", "shocked", "unexpected", "amazed", "wow">>],
     [emotion |-> "neutral", keywords |->
       <<"okay", "fine", "normal", "usual", "regular", "alright">>] >>

\* the intensifier and hedge lists of each analyzer
EnhancedEnergetic ==
  <<"very", "really", "extremely", "absolutely", "totally", "completely",
    "definitely", "incredibly", "deeply">>

EnhancedHesitant ==
  <<"maybe", "perhaps", "think", "probably", "might", "sort", "kind",
    "somewhat", "possibly", "guess", "suppose">>

PsychologicalEnergetic ==
  <<"very", "really", "extremely", "absolutely", "totally", "completely",
    "definitely">>

PsychologicalHesitant ==
  <<"maybe", "perhaps", "think", "probably", "might", "sort", "kind",
    "somewhat", "possibly">>

SessionEnergetic ==
  <<"very", "really", "extremely", "absolutely", "!">>

SessionHesitant ==
  <<"maybe", "perhaps", "i think", "probably", "might">>

ConversationalEnergetic ==
  <<"very", "really", "extremely", "absolutely", "!", "totally">>

ConversationalHesitant ==
  <<"maybe", "perhaps", "i think", "probably", "might", "sort of">>

\* EnhancedPsychQuestionnaire.analyzeResponse: the first-person pronouns
PersonalPronouns ==
  <<"i", "me", "my", "myself">>

\* ------------------------------------------------------------------------
\* Arithmetic of the tone values
\* ------------------------------------------------------------------------

Max(a, b) == IF a >= b THEN a ELSE b

Min(a, b) == IF a <= b THEN a ELSE b

\* the nearest integer to 100 * n / d, halves up (Math.round), n >= 0, d > 0
RoundHundredths(n, d) == (200 * n + d) \div (2 * d)

\* 100 * n / d lies exactly between two integers
OnHalf(n, d) == (200 * n) % (2 * d) = d

\* Math.round((k / den) * 100).  The double k / den is exact when it is a
\* multiple of 1/8, and then so is the product; any other quotient whose
\* hundredfold is a half in exact arithmetic is a double next to it, which
\* Math.round takes to either neighbour.
RatioRounded(k, den) ==
  IF OnHalf(k, den) /\ (8 * k) % den # 0
  THEN {RoundHundredths(k, den) - 1, RoundHundredths(k, den)}
  ELSE {RoundHundredths(k, den)}

\* Math.round(x * 100) for a double x computed as a sum of products by 0.3,
\* 0.2, 0.4 whose exact value is n / d: the sum carries rounding errors, so
\* on an exact half Math.round takes it to either neighbour
SumRounded(n, d) ==
  IF OnHalf(n, d)
  THEN {RoundHundredths(n, d) - 1, RoundHundredths(n, d)}
  ELSE {RoundHundredths(n, d)}

\* the clamp without its Math.min(1, x)
ClampSumRoundedNoMin(n, d) == IF n <= 0 THEN {0} ELSE SumRounded(n, d)

\* Math.round(Math.max(0, Math.min(1, x)) * 100), x = n / d, d > 0
ClampSumRounded(n, d) ==
  IF n <= 0 THEN {0} ELSE IF n >= d THEN {100} ELSE SumRounded(n, d)

\* the ratio without its Math.min(1, x)
WordCountRatioNoCap(wordCount, full) == RoundHundredths(wordCount, full)

\* the ratio counted down from 1 instead of up from 0
WordCountRatioInverted(wordCount, full) ==
  RoundHundredths(full - Min(full, wordCount), full)

\* Math.round(Math.min(1, wordCount / full) * 100), full = 15, 20, 30, 50:
\* 100 * wordCount / full is never a half
WordCountRatio(wordCount, full) == RoundHundredths(Min(full, wordCount), full)

\* ------------------------------------------------------------------------
\* The steps the four analyzers share
\* ------------------------------------------------------------------------

\* words.some(word => word.includes(keyword))
SomeWordIncludes(words, keyword) ==
  \E w \in 1..Len(words) : Includes(words[w], keyword)

\* a count of the (keyword, word) pairs instead of the keywords
KeywordMatchesPerWord(words, keywords) ==
  Cardinality({p \in (1..Len(keywords)) \X (1..Len(words)) :
                 Includes(words[p[2]], keywords[p[1]])})

\* keywords.filter(keyword => words.some(word => word.includes(keyword))).length
KeywordMatches(words, keywords) ==
  Len(SelectSeq(keywords, LAMBDA keyword : SomeWordIncludes(words, keyword)))

\* words.filter(word => list.some(k => word.includes(k))).length
WordsContaining(words, list) ==
  Len(SelectSeq(words,
        LAMBDA word : \E k \in 1..Len(list) : Includes(word, list[k])))

\* the value of matches in each iteration of the loop over emotionKeywords
MatchCounts(words, emotionKeywords) ==
  [e \in 1..Len(emotionKeywords) |->
     KeywordMatches(words, emotionKeywords[e].keywords)]

\* the replacement with >= in place of >
ReplacesCandidateOnTie(matches, maxMatches) == matches >= maxMatches

\* if (matches > maxMatches) { maxMatches = matches; detectedEmotion = emotion }
ReplacesCandidate(matches, maxMatches) == matches > maxMatches

\* the loop over Object.entries(emotionKeywords), from entry e on
RECURSIVE EmotionLoop(_, _, _, _, _)
EmotionLoop(emotionKeywords, counts, e, detectedEmotion, maxMatches) ==
  IF e > Len(emotionKeywords) THEN detectedEmotion
  ELSE IF ReplacesCandidate(counts[e], maxMatches)
       THEN EmotionLoop(emotionKeywords, counts, e + 1,
                        emotionKeywords[e].emotion, counts[e])
       ELSE EmotionLoop(emotionKeywords, counts, e + 1,
                        detectedEmotion, maxMatches)

\* the loop started from the first entry of the table as the candidate
DetectEmotionFromFirst(emotionKeywords, counts) ==
  EmotionLoop(emotionKeywords, counts, 1, emotionKeywords[1].emotion, 0)

\* let detectedEmotion = 'neutral'; let maxMatches = 0; for (...) {...}
DetectEmotion(emotionKeywords, counts) ==
  EmotionLoop(emotionKeywords, counts, 1, "neutral", 0)

\* Object.values(emotionKeywords).flat()
RECURSIVE FlatKeywords(_, _)
FlatKeywords(emotionKeywords, e) ==
  IF e > Len(emotionKeywords) THEN <<>>
  ELSE emotionKeywords[e].keywords \o FlatKeywords(emotionKeywords, e + 1)

\* text.toLowerCase().split(/\s+/).filter(word => word.length > 0)
NormalizeFiltered(t) == FilterNonEmpty(SplitWhitespace(ToLowerCase(t)))

\* message.toLowerCase().split(' ')
NormalizeSpaceSplit(t) == SplitSpace(ToLowerCase(t))

\* ------------------------------------------------------------------------
\* The analyzers.  Each is the set of records a call can return: the emotion,
\* the tone in hundredths, and the locals at the return (words, wordCount,
\* matches per emotion, the counts behind energy, hesitation, authenticity).
\* ------------------------------------------------------------------------

\* words.filter(word => ['i', 'me', 'my', 'myself'].includes(word)).length
CountPersonalPronouns(words) ==
  Len(SelectSeq(words,
        LAMBDA word : \E p \in 1..Len(PersonalPronouns) :
                        PersonalPronouns[p] = word))

\* words.filter(word => word.length > 6).length
CountSpecificDetails(words) ==
  Len(SelectSeq(words, LAMBDA word : Len(word) > 6))

\* Object.values(emotionKeywords).flat().filter(keyword =>
\*   words.some(word => word.includes(keyword))).length
CountEmotionalWords(words, emotionKeywords) ==
  KeywordMatches(words, FlatKeywords(emotionKeywords, 1))

\* the weighted sum without its Math.max(0.3, x)
EnhancedAuthenticityNumNoFloor(pronouns, details, emotional, hesitant, den) ==
  3 * pronouns + 3 * details + 2 * emotional + 2 * (den - hesitant)

\* EnhancedPsychQuestionnaire: Math.max(0.3, pronouns*0.3 + details*0.3 +
\* emotional*0.2 + (1 - hesitation)*0.2), as a numerator over 10 * den
EnhancedAuthenticityNum(pronouns, details, emotional, hesitant, den) ==
  Max(3 * den,
      3 * pronouns + 3 * details + 2 * emotional + 2 * (den - hesitant))

EnhancedAnalyzeResponse(t) ==
  LET words == NormalizeFiltered(t)
      wordCount == Len(words)
      counts == MatchCounts(words, EnhancedEmotionKeywords)
      den == Max(wordCount, 1)
      energetic == WordsContaining(words, EnhancedEnergetic)
      hesitant == WordsContaining(words, EnhancedHesitant)
      personalPronouns == CountPersonalPronouns(words)
      specificDetails == CountSpecificDetails(words)
      emotionalWords == CountEmotionalWords(words, EnhancedEmotionKeywords)
      authNum == EnhancedAuthenticityNum(personalPronouns, specificDetails,
                                         emotionalWords, hesitant, den)
  IN { [ emotion |-> DetectEmotion(EnhancedEmotionKeywords, counts),
         confidence |-> WordCountRatio(wordCount, 15),
         energy |-> e,
         verbosity |-> WordCountRatio(wordCount, 30),
         hesitation |-> h,
         authenticity |-> a,
         wordCount |-> wordCount,
         words |-> words,
         matches |-> counts,
         energetic |-> energetic,
         hesitant |-> hesitant,
         personalPronouns |-> personalPronouns,
         specificDetails |-> specificDetails,
         emotionalWords |-> emotionalWords ] :
       e \in RatioRounded(energetic, den),
       h \in RatioRounded(hesitant, den),
       a \in ClampSumRounded(authNum, 10 * den) }

\* PsychologicalQuestionnaire: Math.max(0.3, 1 - hesitation*0.4 +
\* confidence*0.3 - (energy > 0.3 ? 0.1 : 0)), as a numerator over 150 * den
PsychologicalAuthenticityNum(wordCount, energetic, hesitant, den) ==
  Max(45 * den,
      150 * den - 60 * hesitant + 3 * Min(15, wordCount) * den
        - (IF 10 * energetic > 3 * den THEN 15 * den ELSE 0))

PsychologicalAnalyzeResponse(t) ==
  LET words == NormalizeFiltered(t)
      wordCount == Len(words)
      counts == MatchCounts(words, PsychologicalEmotionKeywords)
      den == Max(wordCount, 1)
      energetic == WordsContaining(words, PsychologicalEnergetic)
      hesitant == WordsContaining(words, PsychologicalHesitant)
      authNum == PsychologicalAuthenticityNum(wordCount, energetic, hesitant,
                                              den)
  IN { [ emotion |-> DetectEmotion(PsychologicalEmotionKeywords, counts),
         confidence |-> WordCountRatio(wordCount, 15),
         energy |-> e,
         verbosity |-> WordCountRatio(wordCount, 30),
         hesitation |-> h,
         authenticity |-> a,
         wordCount |-> wordCount,
         words |-> words,
         matches |-> counts,
         energetic |-> energetic,
         hesitant |-> hesitant ] :
       e \in RatioRounded(energetic, den),
       h \in RatioRounded(hesitant, den),
       a \in ClampSumRounded(authNum, 150 * den) }

\* PsychologySession: 1 - hesitation*0.3 + confidence*0.2 with
\* confidence = Math.min(1, wordCount / 20), as a numerator over
\* 100 * wordCount (split(' ') returns at least one piece: wordCount >= 1)
SessionAuthenticityNum(wordCount, hesitant) ==
  100 * wordCount - 30 * hesitant + Min(20, wordCount) * wordCount

SessionAnalyzeResponse(t) ==
  LET words == NormalizeSpaceSplit(t)
      wordCount == Len(words)
      counts == MatchCounts(words, SessionEmotionKeywords)
      energetic == WordsContaining(words, SessionEnergetic)
      hesitant == WordsContaining(words, SessionHesitant)
      authNum == SessionAuthenticityNum(wordCount, hesitant)
  IN { [ emotion |-> DetectEmotion(SessionEmotionKeywords, counts),
         confidence |-> WordCountRatio(wordCount, 20),
         energy |-> e,
         verbosity |-> WordCountRatio(wordCount, 50),
         hesitation |-> h,
         authenticity |-> a,
         honestyScore |-> s,
         confidenceLevel |-> WordCountRatio(wordCount, 20),
         wordCount |-> wordCount,
         words |-> words,
         matches |-> counts,
         energetic |-> energetic,
         hesitant |-> hesitant ] :
       e \in RatioRounded(energetic, wordCount),
       h \in RatioRounded(hesitant, wordCount),
       a \in ClampSumRounded(authNum, 100 * wordCount),
       s \in SumRounded(Max(30 * wordCount, authNum), 100 * wordCount) }

\* ConversationalAIService: 1 - hesitation*0.3 + confidence*0.2 with
\* confidence = Math.min(1, wordCount / 15), as a numerator over
\* 150 * wordCount (wordCount >= 1 as above)
ConversationalAuthenticityNum(wordCount, hesitant) ==
  150 * wordCount - 45 * hesitant + 2 * Min(15, wordCount) * wordCount

ConversationalAnalyzeUserResponse(t) ==
  LET words == NormalizeSpaceSplit(t)
      wordCount == Len(words)
      counts == MatchCounts(words, ConversationalEmotionKeywords)
      energetic == WordsContaining(words, ConversationalEnergetic)
      hesitant == WordsContaining(words, ConversationalHesitant)
      authNum == ConversationalAuthenticityNum(wordCount, hesitant)
  IN { [ emotion |-> DetectEmotion(ConversationalEmotionKeywords, counts),
         confidence |-> WordCountRatio(wordCount, 15),
         energy |-> e,
         verbosity |-> WordCountRatio(wordCount, 30),
         hesitation |-> h,
         authenticity |-> a,
         wordCount |-> wordCount,
         words |-> words,
         matches |-> counts,
         energetic |-> energetic,
         hesitant |-> hesitant ] :
       e \in RatioRounded(energetic, wordCount),
       h \in RatioRounded(hesitant, wordCount),
       a \in ClampSumRounded(authNum, 150 * wordCount) }

\* ------------------------------------------------------------------------
\* PsychologicalQuestionnaire: the questions, the Answer a submission
\* builds, and generatePsychologicalProfile
\* ------------------------------------------------------------------------

PSYCHOLOGICAL_QUESTIONS ==
  << [id |-> 1, tier |-> 1, category |-> "core_values", text |->
        "What's something you care about deeply but rarely talk about?"],
     [id |-> 2, tier |-> 1, category |-> "formative_experiences", text |->
        "What's a decision you've made that still shapes how you see the world?"],
     [id |-> 3, tier |-> 1, category |-> "purpose_motivation", text |->
        "What gives your life meaning right now?"],
     [id |-> 4, tier |-> 2, category |-> "self_perception", text |->
        "Have you ever claimed something about yourself that you weren't entirely sure was true?"],
     [id |-> 5, tier |-> 2, category |-> "social_perception", text |->
        "What do people assume about you that isn't entirely wrong, but isn't the whole story either?"],
     [id |-> 6, tier |-> 3, category |-> "emotional_state", text |->
        "If your thoughts had a texture today, what would they feel like and why?"],
     [id |-> 7, tier |-> 3, category |-> "self_expression", text |->
        "If you had to paint your personality in 3 brush strokes, what colors would you choose?"],
     [id |-> 8, tier |-> 4, category |-> "shadow_traits", text |->
        "Is there a part of yourself you show only to gain advantage? What is it?"],
     [id |-> 9, tier |-> 4, category |-> "power_dynamics", text |->
        "Do you feel more comfortable leading openly, or influencing subtly from the background? Why?"] >>

\* handleSubmitAnswer: the Answer built from the current question, the trimmed
\* text, the response time and one analysis of the trimmed text
AnswerOf(question, trimmed, responseTime, analysis) ==
  [ questionId |-> question.id,
    question |-> question.text,
    answer |-> trimmed,
    responseTime |-> responseTime,
    wordCount |-> Len(SplitWhitespace(trimmed)),
    emotionDetected |-> analysis.emotion,
    toneAnalysis |-> [ confidence |-> analysis.confidence,
                       energy |-> analysis.energy,
                       verbosity |-> analysis.verbosity,
                       hesitation |-> analysis.hesitation,
                       authenticity |-> analysis.authenticity ] ]

\* answers.reduce((sum, answer) => sum + answer.<field>, 0)
RECURSIVE SumOf(_, _)
SumOf(list, field) ==
  IF list = <<>> THEN 0
  ELSE SumOf(SubSeq(list, 1, Len(list) - 1), field) + list[Len(list)][field]

\* answers.reduce((sum, answer) => sum + answer.toneAnalysis.<field>, 0),
\* in hundredths
RECURSIVE SumOfTone(_, _)
SumOfTone(list, field) ==
  IF list = <<>> THEN 0
  ELSE SumOfTone(SubSeq(list, 1, Len(list) - 1), field)
         + list[Len(list)].toneAnalysis[field]

\* 0 / 0
NaN == [nan |-> TRUE]

\* sum / answers.length as a double: the exact quotient num / den, and the
\* side of it on which the double lies (-1 below, 0 on it, 1 above), since a
\* sum of doubles need not be the double of the exact sum
Quotient(num, den, side) ==
  IF den = 0 THEN NaN
  ELSE [nan |-> FALSE, num |-> num, den |-> den, side |-> side]

\* q > n / d; every comparison with NaN is false
GreaterThan(q, n, d) ==
  /\ ~q.nan
  /\ \/ q.num * d > n * q.den
     \/ q.num * d = n * q.den /\ q.side = 1

\* q < n / d
LessThan(q, n, d) ==
  /\ ~q.nan
  /\ \/ q.num * d < n * q.den
     \/ q.num * d = n * q.den /\ q.side = -1

\* Math.round of a quotient of integers (NaN stays NaN)
MathRound(q) ==
  IF q.nan THEN "NaN" ELSE (2 * q.num + q.den) \div (2 * q.den)

\* emotions.reduce((acc, emotion) => { acc[emotion] = (acc[emotion] || 0) + 1 }):
\* the histogram, its keys in the order of their insertion
RECURSIVE EmotionCounts(_)
EmotionCounts(emotions) ==
  IF emotions = <<>> THEN <<>>
  ELSE LET acc == EmotionCounts(SubSeq(emotions, 1, Len(emotions) - 1))
           emotion == emotions[Len(emotions)]
       IN  IF \E i \in 1..Len(acc) : acc[i].emotion = emotion
           THEN [i \in 1..Len(acc) |->
                   IF acc[i].emotion = emotion
                   THEN [acc[i] EXCEPT !.count = @ + 1]
                   ELSE acc[i]]
           ELSE Append(acc, [emotion |-> emotion, count |-> 1])

\* a sort that puts an entry in front of the entries it ties with
ComesBeforeStrictly(placed, entry) == placed.count > entry.count

\* where a stable descending sort puts an entry among entries already sorted:
\* behind every entry that does not count less
ComesBefore(placed, entry) == placed.count >= entry.count

\* Array.prototype.sort(([,a], [,b]) => b - a), a stable sort
RECURSIVE SortByCountDescending(_)
SortByCountDescending(entries) ==
  IF entries = <<>> THEN <<>>
  ELSE LET sorted == SortByCountDescending(SubSeq(entries, 1, Len(entries) - 1))
           entry == entries[Len(entries)]
           k == Cardinality({i \in 1..Len(sorted) : ComesBefore(sorted[i], entry)})
       IN  SubSeq(sorted, 1, k) \o <<entry>> \o SubSeq(sorted, k + 1, Len(sorted))

\* Object.entries(emotionCounts).sort(...)[0]?.[0] || 'neutral'
DominantEmotion(emotionCounts) ==
  IF emotionCounts = <<>> THEN "neutral"
  ELSE SortByCountDescending(emotionCounts)[1].emotion

\* the conditions of the archetype rules, in the order of the if / else if
StorytellerRule(avgVerbosity, avgAuthenticity) ==
  GreaterThan(avgVerbosity, 6, 10) /\ GreaterThan(avgAuthenticity, 7, 10)

VisionaryRule(avgConfidence, avgHesitation) ==
  GreaterThan(avgConfidence, 7, 10) /\ LessThan(avgHesitation, 3, 10)

AnalystRule(avgHesitation, avgAuthenticity) ==
  GreaterThan(avgHesitation, 4, 10) /\ GreaterThan(avgAuthenticity, 6, 10)

\* the fourth rule without its second disjunct
ObserverRuleContemplativeOnly(dominantEmotion) ==
  dominantEmotion = "contemplative"

ObserverRule(dominantEmotion) ==
  dominantEmotion = "contemplative" \/ dominantEmotion = "neutral"

BalancedExplorer ==
  [ archetype |-> "The Balanced Explorer",
    motivationalType |-> "balanced seeker",
    communicationMode |-> "thoughtful" ]

ReflectiveStoryteller ==
  [ archetype |-> "The Reflective Storyteller",
    motivationalType |-> "narrative-driven introspector",
    communicationMode |-> "expressive and detailed" ]

DecisiveVisionary ==
  [ archetype |-> "The Decisive Visionary",
    motivationalType |-> "action-oriented leader",
    communicationMode |-> "direct and confident" ]

ThoughtfulAnalyst ==
  [ archetype |-> "The Thoughtful Analyst",
    motivationalType |-> "careful contemplator",
    communicationMode |-> "measured and considerate" ]

PhilosophicalObserver ==
  [ archetype |-> "The Philosophical Observer",
    motivationalType |-> "wisdom-seeking observer",
    communicationMode |-> "analytical and reserved" ]

\* four independent ifs: the last rule that holds overwrites the others
DetermineArchetypeLastWins(storyteller, visionary, analyst, observer) ==
  IF observer THEN PhilosophicalObserver
  ELSE IF analyst THEN ThoughtfulAnalyst
  ELSE IF visionary THEN DecisiveVisionary
  ELSE IF storyteller THEN ReflectiveStoryteller
  ELSE BalancedExplorer

\* the if / else if chain over the four rules
DetermineArchetype(storyteller, visionary, analyst, observer) ==
  IF storyteller THEN ReflectiveStoryteller
  ELSE IF visionary THEN DecisiveVisionary
  ELSE IF analyst THEN ThoughtfulAnalyst
  ELSE IF observer THEN PhilosophicalObserver
  ELSE BalancedExplorer

\* if (condition) traits.push(label)
PushIf(condition, label) == IF condition THEN <<label>> ELSE <<>>

\* one decimal digit as a character
DigitChar(d) == SubSeq("0123456789", d + 1, d + 1)

\* new Date(ms).toISOString(), for a clock within the first second of the epoch
ToISOString(ms) ==
  "1970-01-01T00:00:00."
    \o DigitChar((ms \div 100) % 10) \o DigitChar((ms \div 10) % 10)
    \o DigitChar(ms % 10) \o "Z"

\* generatePsychologicalProfile(answers, dataConsent); fp gives the side of each
\* averaged tone value, now is the clock read by new Date()
generatePsychologicalProfile(list, dataConsent, name, fp, now) ==
  LET n == Len(list)
      totalWords == SumOf(list, "wordCount")
      avgResponseTime == Quotient(SumOf(list, "responseTime"), n, 0)
      avgAuthenticity ==
        Quotient(SumOfTone(list, "authenticity"), 100 * n, fp.authenticity)
      avgConfidence ==
        Quotient(SumOfTone(list, "confidence"), 100 * n, fp.confidence)
      avgVerbosity ==
        Quotient(SumOfTone(list, "verbosity"), 100 * n, fp.verbosity)
      avgHesitation ==
        Quotient(SumOfTone(list, "hesitation"), 100 * n, fp.hesitation)
      emotionCounts == EmotionCounts([i \in 1..n |-> list[i].emotionDetected])
      dominantEmotion == DominantEmotion(emotionCounts)
      chosen == DetermineArchetype(
                  StorytellerRule(avgVerbosity, avgAuthenticity),
                  VisionaryRule(avgConfidence, avgHesitation),
                  AnalystRule(avgHesitation, avgAuthenticity),
                  ObserverRule(dominantEmotion))
      coreTraits ==
        PushIf(GreaterThan(avgAuthenticity, 7, 10), "authentic")
          \o PushIf(GreaterThan(avgVerbosity, 5, 10), "expressive")
          \o PushIf(GreaterThan(avgConfidence, 6, 10), "self-assured")
          \o PushIf(GreaterThan(avgHesitation, 4, 10), "thoughtful")
          \o PushIf(dominantEmotion = "contemplative", "introspective")
          \o PushIf(totalWords > 200, "articulate")
      shadowTraits ==
        PushIf(GreaterThan(avgHesitation, 5, 10), "tendency to overthink")
          \o PushIf(LessThan(avgConfidence, 4, 10), "self-doubt patterns")
          \o PushIf(LessThan(avgVerbosity, 3, 10), "communication guardedness")
          \o PushIf(GreaterThan(avgResponseTime, 60, 1),
                    "perfectionist tendencies")
  IN  [ name |-> name,
        psych_profile |->
          [ archetype |-> chosen.archetype,
            core_traits |-> coreTraits,
            motivational_type |-> chosen.motivationalType,
            shadow_traits |-> shadowTraits,
            emotion_profile |->
              dominantEmotion \o " dominant with "
                \o (IF GreaterThan(avgAuthenticity, 7, 10)
                    THEN "high" ELSE "moderate")
                \o " authenticity",
            honesty_index |-> avgAuthenticity,
            communication_mode |-> chosen.communicationMode,
            tone_signature |->
              (IF GreaterThan(avgVerbosity, 5, 10) THEN "verbose" ELSE "concise")
                \o ", "
                \o (IF GreaterThan(avgConfidence, 6, 10)
                    THEN "confident" ELSE "measured"),
            response_patterns |->
              [ avg_word_count |-> MathRound(Quotient(totalWords, n, 0)),
                avg_response_time |-> MathRound(avgResponseTime),
                emotional_range |-> Len(emotionCounts),
                dominant_emotion |-> dominantEmotion ] ],
        answers |-> list,
        data_consent |-> dataConsent,
        session_completed_at |-> ToISOString(now) ]

\* ------------------------------------------------------------------------
\* The explored inputs
\* ------------------------------------------------------------------------

\* words of the inputs: an upper-case word that contains the keywords
\* "wonderful" and "wonder", a sadness keyword, an intensifier, two hedges
\* (one of them a contemplative keyword too), a first-person pronoun, and
\* the empty word (which puts separators at the ends of the text or next to
\* each other)
Vocabulary == {"", "Wonderfully", "sad", "very", "maybe", "think", "i"}

Separators == {" ", "\t"}

RECURSIVE Join(_, _)
Join(ws, sep) ==
  IF ws = <<>> THEN ""
  ELSE IF Len(ws) = 1 THEN ws[1]
  ELSE ws[1] \o sep \o Join(Tail(ws), sep)

WordSeqs == UNION {[1..n -> Vocabulary] : n \in 0..MaxWords}

Texts == {Join(ws, sep) : ws \in WordSeqs, sep \in Separators}

RECURSIVE Padded(_, _)
Padded(head, n) == IF n = 0 THEN head ELSE Padded(head, n - 1) \o " so"

\* long inputs: one word followed by up to MaxPad filler words
LongTextsFrom(head) == {Padded(head, n) : n \in 0..MaxPad}

LongTexts == LongTextsFrom("maybe") \cup LongTextsFrom("Very")

NoResult == [emotion |-> "none"]

\* ------------------------------------------------------------------------
\* The parts of the state a specification leaves alone
\* ------------------------------------------------------------------------

\* the thresholds, in tenths, the averaged tone values are compared with
Thresholds ==
  [ authenticity |-> {6, 7}, confidence |-> {4, 6, 7},
    verbosity |-> {3, 5, 6}, hesitation |-> {3, 4, 5} ]

ExactSides == [m \in DOMAIN Thresholds |-> 0]

\* the sides the averages of a session can lie on: a side other than 0 is
\* told apart only when the exact average of two or more values is a threshold
SidesOf(list) ==
  { fp \in [DOMAIN Thresholds -> {-1, 0, 1}] :
      \A m \in DOMAIN Thresholds :
        fp[m] # 0 =>
          /\ Len(list) >= 2
          /\ \E t \in Thresholds[m] : SumOfTone(list, m) = 10 * t * Len(list) }

NoProfile == [name |-> "none"]

AnalyzersIdle ==
  /\ text = ""
  /\ variant = "none"
  /\ result = NoResult
  /\ text2 = ""
  /\ result2 = NoResult

AggregatorIdle ==
  /\ answers = <<>>
  /\ answers2 = <<>>
  /\ drift = ExactSides
  /\ drift2 = ExactSides
  /\ allowDataUsage = FALSE
  /\ clock = 0
  /\ profile = NoProfile
  /\ profile2 = NoProfile

\* no conversation state yet (null)
NoConversation == [sessionId |-> "none"]

\* no component is mounted
ComponentsIdle ==
  /\ flow = "none"
  /\ mounted = FALSE
  /\ currentAnswer = ""
  /\ pending = <<>>
  /\ delivered = <<>>
  /\ questions = <<>>
  /\ currentQuestionIndex = 0
  /\ responses = <<>>
  /\ isSubmitting = FALSE
  /\ profileRuns = 0
  /\ conversationState = NoConversation
  /\ messages = <<>>
  /\ isLoading = FALSE
  /\ isTyping = FALSE
  /\ error = ""

FlowIdle ==
  /\ supabase = "client"
  /\ ComponentsIdle

\* ------------------------------------------------------------------------
\* Specification of one call: an input string, then one analyzer applied
\* ------------------------------------------------------------------------

\* ------------------------------------------------------------------------
\* useAppStore and handleAsyncError (stateManager)
\* ------------------------------------------------------------------------

\* null, where a string is expected
Null == "null"

\* null, where a user is expected
NoUser == [id |-> "null", profile_completed |-> FALSE]

\* null, where a report is expected
NoReport == [id |-> 0]

\* the initial state of the store, which reset() restores
InitialState ==
  [ user |-> NoUser, isAuthenticated |-> FALSE, currentStep |-> 0,
    formStep |-> 0, isLoading |-> FALSE, loadingMessage |-> "",
    error |-> Null, conversationData |-> "{}", currentReport |-> NoReport ]

\* !!user
Truthy(user) == user # NoUser

setUser(state, user) ==
  [state EXCEPT !.user = user, !.isAuthenticated = Truthy(user)]

setCurrentStep(state, step) ==
  [state EXCEPT !.currentStep = step, !.formStep = 0]

setFormStep(state, step) == [state EXCEPT !.formStep = step]

setLoading(state, loading, message) ==
  [state EXCEPT !.isLoading = loading, !.loadingMessage = message,
                !.error = IF loading THEN Null ELSE state.error]

setErrorKeepsLoading(state, message) == [state EXCEPT !.error = message]

setError(state, message) ==
  [state EXCEPT !.error = message, !.isLoading = FALSE]

setConversationData(state, data) == [state EXCEPT !.conversationData = data]

setCurrentReport(state, report) == [state EXCEPT !.currentReport = report]

\* handleAsyncError up to its await of asyncFn: setLoading(true), setError(null)
HandleAsyncErrorBegins(state) == setError(setLoading(state, TRUE, ""), Null)

\* handleAsyncError after asyncFn resolved: setLoading(false)
HandleAsyncErrorResolves(state) == setLoading(state, FALSE, "")

\* handleAsyncError after asyncFn rejected: setError(message), setLoading(false)
HandleAsyncErrorRejects(state, message) ==
  setLoading(setError(state, message), FALSE, "")

\* nothing of the app is in use
AppIdle ==
  /\ appStore = InitialState
  /\ asyncCalls = <<>>
  /\ authUser = NoUser
  /\ localStorage = [astropsyche_user |-> NoUser, astropsyche_reports |-> <<>>]
  /\ database = [users |-> {}, final_reports |-> <<>>]
  /\ reports = <<>>
  /\ dateNow = 1

Init ==
  /\ text \in Texts \cup LongTexts
  /\ variant = "none"
  /\ result = NoResult
  /\ text2 = ""
  /\ result2 = NoResult
  /\ AggregatorIdle
  /\ FlowIdle
  /\ AppIdle

CallEnhanced ==
  /\ variant = "none"
  /\ variant' = "enhanced"
  /\ result' \in EnhancedAnalyzeResponse(text)
  /\ UNCHANGED <<text, text2, result2>>
  /\ UNCHANGED aggregatorVars
  /\ UNCHANGED <<flowVars, appVars>>

CallPsychological ==
  /\ variant = "none"
  /\ variant' = "psychological"
  /\ result' \in PsychologicalAnalyzeResponse(text)
  /\ UNCHANGED <<text, text2, result2>>
  /\ UNCHANGED aggregatorVars
  /\ UNCHANGED <<flowVars, appVars>>

CallSession ==
  /\ variant = "none"
  /\ variant' = "session"
  /\ result' \in SessionAnalyzeResponse(text)
  /\ UNCHANGED <<text, text2, result2>>
  /\ UNCHANGED aggregatorVars
  /\ UNCHANGED <<flowVars, appVars>>

CallConversational ==
  /\ variant = "none"
  /\ variant' = "conversational"
  /\ result' \in ConversationalAnalyzeUserResponse(text)
  /\ UNCHANGED <<text, text2, result2>>
  /\ UNCHANGED aggregatorVars
  /\ UNCHANGED <<flowVars, appVars>>

Next == CallEnhanced \/ CallPsychological \/ CallSession \/ CallConversational

Spec == Init /\ [][Next]_vars

\* ------------------------------------------------------------------------
\* Specification of two calls of one analyzer, on two long inputs
\* ------------------------------------------------------------------------

InitPair ==
  /\ text \in LongTextsFrom("maybe")
  /\ text2 \in LongTextsFrom("Very")
  /\ variant = "none"
  /\ result = NoResult
  /\ result2 = NoResult
  /\ AggregatorIdle
  /\ FlowIdle
  /\ AppIdle

CallEnhancedTwice ==
  /\ variant = "none"
  /\ variant' = "enhanced"
  /\ result' \in EnhancedAnalyzeResponse(text)
  /\ result2' \in EnhancedAnalyzeResponse(text2)
  /\ UNCHANGED <<text, text2>>
  /\ UNCHANGED aggregatorVars
  /\ UNCHANGED <<flowVars, appVars>>

CallPsychologicalTwice ==
  /\ variant = "none"
  /\ variant' = "psychological"
  /\ result' \in PsychologicalAnalyzeResponse(text)
  /\ result2' \in PsychologicalAnalyzeResponse(text2)
  /\ UNCHANGED <<text, text2>>
  /\ UNCHANGED aggregatorVars
  /\ UNCHANGED <<flowVars, appVars>>

CallSessionTwice ==
  /\ variant = "none"
  /\ variant' = "session"
  /\ result' \in SessionAnalyzeResponse(text)
  /\ result2' \in SessionAnalyzeResponse(text2)
  /\ UNCHANGED <<text, text2>>
  /\ UNCHANGED aggregatorVars
  /\ UNCHANGED <<flowVars, appVars>>

CallConversationalTwice ==
  /\ variant = "none"
  /\ variant' = "conversational"
  /\ result' \in ConversationalAnalyzeUserResponse(text)
  /\ result2' \in ConversationalAnalyzeUserResponse(text2)
  /\ UNCHANGED <<text, text2>>
  /\ UNCHANGED aggregatorVars
  /\ UNCHANGED <<flowVars, appVars>>

NextPair ==
  \/ CallEnhancedTwice
  \/ CallPsychologicalTwice
  \/ CallSessionTwice
  \/ CallConversationalTwice

SpecPair == InitPair /\ [][NextPair]_vars

\* ------------------------------------------------------------------------
\* Specification of the aggregation of one session: a list of answers, then
\* generatePsychologicalProfile called on it twice while the clock runs
\* ------------------------------------------------------------------------

\* props.userName
userName == "Ada"

\* what is typed and how long it took, for the explored answers: a pronoun
\* (no emotion), a sadness keyword, a hedge inside blanks, a hedge that is a
\* contemplative keyword, a joy keyword, 12 words and 32 words
SampleSubmissions ==
  { [text |-> "i", responseTime |-> 5],
    [text |-> "sad", responseTime |-> 5],
    [text |-> " maybe ", responseTime |-> 90],
    [text |-> "think", responseTime |-> 30],
    [text |-> "Wonderfully", responseTime |-> 30],
    [text |-> Padded("Very", 11), responseTime |-> 30],
    [text |-> Padded("Very", 31), responseTime |-> 90] }

\* a submission with one analysis of its trimmed text
Analysed(submissions) ==
  UNION { { [text |-> Trim(s.text), responseTime |-> s.responseTime,
              analysis |-> a] : a \in PsychologicalAnalyzeResponse(Trim(s.text)) } :
          s \in submissions }

\* the sessions of up to maxLen answers: the i-th answer answers question i
AnswerListsFrom(analysed, maxLen) ==
  UNION { { [i \in 1..n |->
               AnswerOf(PSYCHOLOGICAL_QUESTIONS[i], f[i].text,
                        f[i].responseTime, f[i].analysis)] :
            f \in [1..n -> analysed] } : n \in 0..maxLen }

AnswerLists == AnswerListsFrom(Analysed(SampleSubmissions), MaxAnswers)

InitProfile ==
  /\ AnalyzersIdle
  /\ FlowIdle
  /\ AppIdle
  /\ answers \in AnswerLists
  /\ drift \in SidesOf(answers)
  /\ answers2 = <<>>
  /\ drift2 = ExactSides
  /\ allowDataUsage \in BOOLEAN
  /\ clock = 0
  /\ profile = NoProfile
  /\ profile2 = NoProfile

\* the first call
GenerateProfile ==
  /\ profile = NoProfile
  /\ profile' = generatePsychologicalProfile(answers, allowDataUsage, userName,
                                             drift, clock)
  /\ UNCHANGED <<answers, answers2, drift, drift2, allowDataUsage, clock, profile2>>
  /\ UNCHANGED analyzerVars
  /\ UNCHANGED <<flowVars, appVars>>

\* a second call that sees the answers of the first call once more
GenerateProfileAgainAccumulated ==
  /\ profile # NoProfile
  /\ profile2 = NoProfile
  /\ profile2' = generatePsychologicalProfile(answers \o answers, allowDataUsage,
                                              userName, drift, clock)
  /\ UNCHANGED <<answers, answers2, drift, drift2, allowDataUsage, clock, profile>>
  /\ UNCHANGED analyzerVars
  /\ UNCHANGED <<flowVars, appVars>>

\* the second call, on the same list
GenerateProfileAgain ==
  /\ profile # NoProfile
  /\ profile2 = NoProfile
  /\ profile2' = generatePsychologicalProfile(answers, allowDataUsage, userName,
                                              drift, clock)
  /\ UNCHANGED <<answers, answers2, drift, drift2, allowDataUsage, clock, profile>>
  /\ UNCHANGED analyzerVars
  /\ UNCHANGED <<flowVars, appVars>>

\* a millisecond passes (until the second call has returned)
Tick ==
  /\ clock < MaxClock
  /\ profile2 = NoProfile
  /\ clock' = clock + 1
  /\ UNCHANGED <<answers, answers2, drift, drift2, allowDataUsage, profile, profile2>>
  /\ UNCHANGED analyzerVars
  /\ UNCHANGED <<flowVars, appVars>>

NextProfile == GenerateProfile \/ GenerateProfileAgain \/ Tick

SpecProfile == InitProfile /\ [][NextProfile]_vars

\* ------------------------------------------------------------------------
\* Specification of the aggregation of two sessions
\* ------------------------------------------------------------------------

PairSubmissions ==
  { [text |-> "i", responseTime |-> 5],
    [text |-> "sad", responseTime |-> 5],
    [text |-> " maybe ", responseTime |-> 90],
    [text |-> Padded("Very", 11), responseTime |-> 30] }

PairAnswerLists == AnswerListsFrom(Analysed(PairSubmissions), MaxPairAnswers)

InitProfilePair ==
  /\ AnalyzersIdle
  /\ FlowIdle
  /\ AppIdle
  /\ answers \in PairAnswerLists
  /\ drift \in SidesOf(answers)
  /\ answers2 \in PairAnswerLists
  /\ drift2 \in SidesOf(answers2)
  /\ allowDataUsage = FALSE
  /\ clock = 0
  /\ profile = NoProfile
  /\ profile2 = NoProfile

\* the call on the second session
GenerateProfileOfSecond ==
  /\ profile2 = NoProfile
  /\ profile2' = generatePsychologicalProfile(answers2, allowDataUsage,
                                              userName, drift2, clock)
  /\ UNCHANGED <<answers, answers2, drift, drift2, allowDataUsage, clock, profile>>
  /\ UNCHANGED analyzerVars
  /\ UNCHANGED <<flowVars, appVars>>

NextProfilePair == GenerateProfile \/ GenerateProfileOfSecond

SpecProfilePair == InitProfilePair /\ [][NextProfilePair]_vars

\* ------------------------------------------------------------------------
\* The remote text generation service (GeminiAIService)
\* ------------------------------------------------------------------------

\* the profile getFallbackResponse serialises (its archetype name; the other
\* fields are constants as well)
FallbackProfile == [archetype |-> [name |-> "The Thoughtful Explorer"]]

FallbackProfileJSON == "{\"archetype\":{\"name\":\"The Thoughtful Explorer\"}}"

CannedResponse ==
  "I appreciate your thoughtful response. Let me reflect on what you've shared..."

\* getFallbackResponse(prompt)
getFallbackResponse(prompt) ==
  IF Includes(prompt, "psychological profile")
  THEN FallbackProfileJSON
  ELSE CannedResponse

\* what the generation service answers when it is reached: a question in
\* quotes, for a question prompt
RemoteQuestion == "\"What do you avoid?\""

\* the outcomes of fetch: the service answers, or the request fails (no key
\* configured, a rejected fetch, a status that is not ok, a body without
\* candidates)
RemoteOutcomes == {"answered", "failed"}

\* callGeminiAPI(prompt): the text of the answer, and the fallback response
\* on every failure; it never throws
callGeminiAPI(prompt, outcome, answer) ==
  IF outcome = "answered" THEN answer ELSE getFallbackResponse(prompt)

\* response.trim().replace(/^["']|["']$/g, '')
StripQuotes(s) ==
  LET quotes == {"\"", "'"}
      t == IF s # "" /\ CharAt(s, 1) \in quotes THEN SubSeq(s, 2, Len(s)) ELSE s
  IN  IF t # "" /\ CharAt(t, Len(t)) \in quotes
      THEN SubSeq(t, 1, Len(t) - 1)
      ELSE t

\* the part of the prompt of generateDynamicQuestion built from the answers
\* (the numbers printed next to them hold no letters)
RECURSIVE ResponsesAnalysis(_, _)
ResponsesAnalysis(previousAnswers, i) ==
  IF i > Len(previousAnswers) THEN ""
  ELSE "\nQ: " \o previousAnswers[i].question
         \o "\nA: " \o previousAnswers[i].answer
         \o "\nEmotion: " \o previousAnswers[i].emotionDetected
         \o "\n" \o ResponsesAnalysis(previousAnswers, i + 1)

DynamicQuestionPrompt(previousAnswers, name) ==
  "You are an emotionally intelligent AI psychologist conducting a deep personality assessment.\nUSER: "
    \o name \o "\nPREVIOUS RESPONSES ANALYSIS:"
    \o ResponsesAnalysis(previousAnswers, 1)
    \o "Return ONLY the question, no explanation."

\* generateDynamicQuestion(previousAnswers, currentTier, userName)
generateDynamicQuestion(previousAnswers, name, outcome) ==
  StripQuotes(Trim(callGeminiAPI(DynamicQuestionPrompt(previousAnswers, name),
                                 outcome, RemoteQuestion)))

\* the answers of the service to the profile prompt: a profile in JSON, text
\* that holds no JSON object, JSON cut short, braces that hold no JSON, and a
\* JSON object that holds none of the fields of a profile
RemoteProfile == [archetype |-> [name |-> "The Quiet Cartographer"]]

RemoteProfileJSON == "{\"archetype\":{\"name\":\"The Quiet Cartographer\"}}"

RemoteProfileAnswers ==
  {RemoteProfileJSON, "Here is the profile.", "{archetype: ", "{oops}", "{}"}

ProfilePrompt ==
  "You are an expert psychologist analyzing personality patterns. Create a comprehensive psychological profile."

\* response.match(/\{[\s\S]*\}/): from the first { to the last }
JsonMatch(response) ==
  LET opens == {i \in 1..Len(response) : CharAt(response, i) = "{"}
      closes == {i \in 1..Len(response) : CharAt(response, i) = "}"}
  IN  IF \E i \in opens : \E j \in closes : i < j
      THEN SubSeq(response, KthPosition(opens, 1),
                  KthPosition(closes, Cardinality(closes)))
      ELSE ""

\* the object {} of JavaScript
EmptyObject == [field \in {} |-> ""]

\* JSON.parse, on the objects met here
JsonParse(s) ==
  CASE s = FallbackProfileJSON -> FallbackProfile
    [] s = RemoteProfileJSON -> RemoteProfile
    [] s = "{}" -> EmptyObject
    [] OTHER -> [threw |-> "SyntaxError"]

\* analyzePsychologicalProfile(answers, userName, birthData)
analyzePsychologicalProfile(outcome, answer) ==
  LET response == callGeminiAPI(ProfilePrompt, outcome, answer)
      jsonMatch == JsonMatch(response)
  IN  IF jsonMatch # "" /\ "threw" \notin DOMAIN JsonParse(jsonMatch)
      THEN JsonParse(jsonMatch)
      ELSE JsonParse(getFallbackResponse("psychological profile"))

\* ------------------------------------------------------------------------
\* EnhancedPsychQuestionnaire and PsychologicalQuestionnaire: the
\* questionnaire components
\* ------------------------------------------------------------------------

FOUNDATIONAL_QUESTIONS ==
  << [id |-> 1, tier |-> 1, category |-> "core_values", text |->
        "What's something you care about deeply but rarely talk about?"],
     [id |-> 2, tier |-> 1, category |-> "formative_experiences", text |->
        "What's a decision you've made that still shapes how you see the world?"],
     [id |-> 3, tier |-> 1, category |-> "purpose_motivation", text |->
        "What gives your life meaning right now?"] >>

fallbackQuestions ==
  << "What's a strength you've exaggerated to others?",
     "If your thoughts had a texture today, what would they feel like?",
     "Do you feel more comfortable leading openly, or influencing subtly from the background?" >>

\* Math.min(4, Math.floor(currentAnswers.length / 2) + 1)
CurrentTier(currentAnswers) == Min(4, Len(currentAnswers) \div 2 + 1)

DynamicCategory(tier) ==
  CASE tier = 1 -> "dynamic_tier_1" [] tier = 2 -> "dynamic_tier_2"
    [] tier = 3 -> "dynamic_tier_3" [] OTHER -> "dynamic_tier_4"

\* the question generateNextQuestion appends: the answer of the service, and
\* one of the fallback questions when generateDynamicQuestion throws; the id
\* is taken from the questions of the render the handler was created in
NewQuestions(currentAnswers, questionsLength, name, outcome, threw) ==
  IF threw
  THEN { [id |-> questionsLength + 1, text |-> fallbackQuestions[k],
          tier |-> 3, category |-> "fallback"] :
         k \in DOMAIN fallbackQuestions }
  ELSE { [id |-> questionsLength + 1,
          text |-> generateDynamicQuestion(currentAnswers, name, outcome),
          tier |-> CurrentTier(currentAnswers),
          category |-> DynamicCategory(CurrentTier(currentAnswers))] }

\* generateDynamicQuestion awaits callGeminiAPI, which catches every failure
\* of the request: no outcome of the request makes it throw
DynamicQuestionThrows(outcome) == FALSE

\* ------------------------------------------------------------------------
\* ConversationalAIService: what updatePhaseAndExtractData reads in the
\* messages of the user, and the phase it determines
\* ------------------------------------------------------------------------

IsDigit(c) == c \in {"0", "1", "2", "3", "4", "5", "6", "7", "8", "9"}

\* [a-zA-Z]
IsLetter(c) == LowerChar(c) \in
  {"a", "b", "c", "d", "e", "f", "g", "h", "i", "j", "k", "l", "m", "n", "o",
   "p", "q", "r", "s", "t", "u", "v", "w", "x", "y", "z"}

\* [\/\-] at position i
SeparatorAt(s, i) == i >= 1 /\ i <= Len(s) /\ CharAt(s, i) \in {"/", "-"}

\* [.!?]
IsSentenceEnd(c) == c \in {".", "!", "?"}

\* s holds lit at position i
LiteralAt(s, i, lit) ==
  /\ i >= 1
  /\ i + Len(lit) - 1 <= Len(s)
  /\ SubSeq(s, i, i + Len(lit) - 1) = lit

\* \d{n} matches at position i
DigitsAt(s, i, n) ==
  /\ i >= 1
  /\ i + n - 1 <= Len(s)
  /\ \A k \in i..(i + n - 1) : IsDigit(CharAt(s, k))

\* \d{1,2} at position i: the number of digits taken when a character that
\* is no digit has to follow (0 when it does not match)
OneOrTwoDigits(s, i) ==
  IF DigitsAt(s, i, 2) THEN 2 ELSE IF DigitsAt(s, i, 1) THEN 1 ELSE 0

\* the first position from i on that holds no whitespace (Len(s) + 1 at the end)
AfterWhitespace(s, i) ==
  CHOOSE j \in i..(Len(s) + 1) :
    /\ \A k \in i..(j - 1) : IsWhitespace(CharAt(s, k))
    /\ j = Len(s) + 1 \/ ~IsWhitespace(CharAt(s, j))

\* the first position from i on that holds no letter
AfterLetters(s, i) ==
  CHOOSE j \in i..(Len(s) + 1) :
    /\ \A k \in i..(j - 1) : IsLetter(CharAt(s, k))
    /\ j = Len(s) + 1 \/ ~IsLetter(CharAt(s, j))

\* the first position from i on that holds one of . ! ?
AfterClause(s, i) ==
  CHOOSE j \in i..(Len(s) + 1) :
    /\ \A k \in i..(j - 1) : ~IsSentenceEnd(CharAt(s, k))
    /\ j = Len(s) + 1 \/ IsSentenceEnd(CharAt(s, j))

\* the least position of a set that is not empty
FirstPosition(positions) == KthPosition(positions, 1)

\* /(?:i'm|i am|my name is|call me)\s+([a-zA-Z]+)/: the position after the
\* introduction when it matches at i (0 when it does not)
NameIntroductions == <<"i'm", "i am", "my name is", "call me">>

AfterIntroduction(s, i) ==
  LET fits == {k \in DOMAIN NameIntroductions : LiteralAt(s, i, NameIntroductions[k])}
  IN  IF fits = {} THEN 0 ELSE i + Len(NameIntroductions[FirstPosition(fits)])

\* the name the expression captures at i ("" when it does not match at i)
NameAt(s, i) ==
  LET blank == AfterIntroduction(s, i)
      start == AfterWhitespace(s, blank)
  IN  IF blank = 0 \/ start = blank THEN ""
      ELSE SubSeq(s, start, AfterLetters(s, start) - 1)

\* match[1] of the first match ("" without a match)
NameMatch(s) ==
  LET at == {i \in 1..Len(s) : NameAt(s, i) # ""}
  IN  IF at = {} THEN "" ELSE NameAt(s, FirstPosition(at))

\* /(\d{1,2})[\/\-](\d{1,2})[\/\-](\d{4})/: the position after the match at i
\* (0 when it does not match at i)
DayFirstDateEnd(s, i) ==
  LET a == OneOrTwoDigits(s, i)
      b == OneOrTwoDigits(s, i + a + 1)
  IN  IF /\ a > 0
         /\ SeparatorAt(s, i + a)
         /\ b > 0
         /\ SeparatorAt(s, i + a + 1 + b)
         /\ DigitsAt(s, i + a + b + 2, 4)
      THEN i + a + b + 6
      ELSE 0

\* /(\d{4})[\/\-](\d{1,2})[\/\-](\d{1,2})/
YearFirstDateEnd(s, i) ==
  LET a == OneOrTwoDigits(s, i + 5)
      b == OneOrTwoDigits(s, i + 6 + a)
  IN  IF /\ DigitsAt(s, i, 4)
         /\ SeparatorAt(s, i + 4)
         /\ a > 0
         /\ SeparatorAt(s, i + 5 + a)
         /\ b > 0
      THEN i + 6 + a + b
      ELSE 0

\* /(january|...|december)\s+(\d{1,2}),?\s+(\d{4})/i
MonthNames ==
  <<"january", "february", "march", "april", "may", "june", "july", "august",
    "september", "october", "november", "december">>

MonthDateEnd(s, i) ==
  LET fits == {k \in DOMAIN MonthNames : LiteralAt(s, i, MonthNames[k])}
      blank == IF fits = {} THEN 0 ELSE i + Len(MonthNames[FirstPosition(fits)])
      day == AfterWhitespace(s, blank)
      d == OneOrTwoDigits(s, day)
      comma == IF LiteralAt(s, day + d, ",") THEN 1 ELSE 0
      blank2 == day + d + comma
      year == AfterWhitespace(s, blank2)
  IN  IF /\ fits # {}
         /\ day > blank
         /\ d > 0
         /\ year > blank2
         /\ DigitsAt(s, year, 4)
      THEN year + 4
      ELSE 0

\* the end of the match of the k-th date pattern at i
DateEnd(s, k, i) ==
  CASE k = 1 -> DayFirstDateEnd(s, i)
    [] k = 2 -> YearFirstDateEnd(s, i)
    [] OTHER -> MonthDateEnd(s, i)

\* match[0] of the k-th date pattern ("" without a match)
DateMatch(s, k) ==
  LET at == {i \in 1..Len(s) : DateEnd(s, k, i) # 0}
  IN  IF at = {} THEN ""
      ELSE SubSeq(s, FirstPosition(at), DateEnd(s, k, FirstPosition(at)) - 1)

\* /(\d{1,2}):(\d{2})\s*(am|pm)?/i: the position after the match at i
TimeEnd(s, i) ==
  LET a == OneOrTwoDigits(s, i)
      blank == i + a + 3
      half == AfterWhitespace(s, blank)
  IN  IF a > 0 /\ LiteralAt(s, i + a, ":") /\ DigitsAt(s, i + a + 1, 2)
      THEN IF LiteralAt(s, half, "am") \/ LiteralAt(s, half, "pm")
           THEN half + 2
           ELSE half
      ELSE 0

TimeMatch(s) ==
  LET at == {i \in 1..Len(s) : TimeEnd(s, i) # 0}
  IN  IF at = {} THEN ""
      ELSE SubSeq(s, FirstPosition(at), TimeEnd(s, FirstPosition(at)) - 1)

\* /(?:born in|from)\s+([^.!?]+)/i at position i: where the captured place
\* starts (0 when it does not match at i); the blanks give one back when
\* nothing else is left to capture
PlaceStart(s, i) ==
  LET blank == IF LiteralAt(s, i, "born in") THEN i + 7
               ELSE IF LiteralAt(s, i, "from") THEN i + 4
               ELSE 0
      start == AfterWhitespace(s, blank)
  IN  IF blank = 0 \/ start = blank THEN 0
      ELSE IF start <= Len(s) /\ ~IsSentenceEnd(CharAt(s, start)) THEN start
      ELSE IF start - blank >= 2 THEN start - 1
      ELSE 0

\* whether the place expression matches, and match[1].trim()
PlaceMatches(s) == \E i \in 1..Len(s) : PlaceStart(s, i) # 0

PlaceMatch(s) ==
  LET start == PlaceStart(s, FirstPosition({i \in 1..Len(s) : PlaceStart(s, i) # 0}))
  IN  Trim(SubSeq(s, start, AfterClause(s, start) - 1))

NoExtractedData == [name |-> "", birthDate |-> "", birthTime |-> "", birthPlace |-> ""]

\* the name taken from the first message of the user: fields that are not
\* set hold "", which is falsy as undefined is
ExtractName(currentData, contents, lowered) ==
  IF currentData.name = "" /\ Len(contents) >= 1
  THEN IF NameMatch(lowered[1]) # ""
       THEN NameMatch(lowered[1])
       ELSE IF Len(SplitSpace(lowered[1])) <= 3
       THEN Trim(contents[1])
       ELSE ""
  ELSE currentData.name

\* userMessages.forEach with datePatterns.forEach: birthDate, when it is not
\* set, is match[0] of the first pattern that matches in the first message
\* that a pattern matches
ExtractDate(currentData, lowered) ==
  LET hits == {h \in (DOMAIN lowered) \X (1..3) :
                 DateMatch(lowered[h[1]], h[2]) # ""}
      first == CHOOSE h \in hits :
                 \A g \in hits : h[1] < g[1] \/ (h[1] = g[1] /\ h[2] <= g[2])
  IN  IF currentData.birthDate # "" THEN currentData.birthDate
      ELSE IF hits = {} THEN ""
      ELSE DateMatch(lowered[first[1]], first[2])

\* birthTime, when it is not set, is match[0] of the first message the time
\* pattern matches
ExtractTime(currentData, lowered) ==
  LET hits == {m \in DOMAIN lowered : TimeMatch(lowered[m]) # ""}
  IN  IF currentData.birthTime # "" THEN currentData.birthTime
      ELSE IF hits = {} THEN ""
      ELSE TimeMatch(lowered[FirstPosition(hits)])

\* the place a message gives: the trimmed capture when the message includes
\* 'born in' or 'from' and the place pattern matches
PlaceOf(content) ==
  IF /\ Includes(content, "born in") \/ Includes(content, "from")
     /\ PlaceMatches(content)
  THEN PlaceMatch(content)
  ELSE ""

\* birthPlace, while it is not set (an empty capture leaves it falsy), is
\* the place of the next message that gives one
ExtractPlace(currentData, lowered) ==
  LET hits == {m \in DOMAIN lowered : PlaceOf(lowered[m]) # ""}
  IN  IF currentData.birthPlace # "" THEN currentData.birthPlace
      ELSE IF hits = {} THEN ""
      ELSE PlaceOf(lowered[FirstPosition(hits)])

\* a variant that completes one message later
DeterminePhaseAtSeven(extractedData, userMessageCount) ==
  IF userMessageCount >= 7 THEN "completion"
  ELSE IF extractedData.name # "" /\ extractedData.birthDate # "" THEN "deep_questions"
  ELSE IF extractedData.name # "" THEN "basic_info"
  ELSE "introduction"

DeterminePhaseAtEightOnly(extractedData, userMessageCount) ==
  IF userMessageCount = 8 THEN "completion"
  ELSE IF extractedData.name # "" /\ extractedData.birthDate # "" THEN "deep_questions"
  ELSE IF extractedData.name # "" THEN "basic_info"
  ELSE "introduction"

\* the phase determined from the extracted data and the messages of the user
DeterminePhase(extractedData, userMessageCount) ==
  IF userMessageCount >= 8 THEN "completion"
  ELSE IF extractedData.name # "" /\ extractedData.birthDate # "" THEN "deep_questions"
  ELSE IF extractedData.name # "" THEN "basic_info"
  ELSE "introduction"

\* messages.filter(msg => msg.role === 'user'), their contents
UserContents(conversationMessages) ==
  LET userMessages == SelectSeq(conversationMessages, LAMBDA msg : msg.role = "user")
  IN  [k \in DOMAIN userMessages |-> userMessages[k].content]

\* msg.content.toLowerCase() of every message of the user
Lowered(contents) == [k \in DOMAIN contents |-> ToLowerCase(contents[k])]

\* the data extracted from the contents and their lower-case forms
ExtractData(currentData, contents, lowered) ==
  [ name |-> ExtractName(currentData, contents, lowered),
    birthDate |-> ExtractDate(currentData, lowered),
    birthTime |-> ExtractTime(currentData, lowered),
    birthPlace |-> ExtractPlace(currentData, lowered) ]

\* updatePhaseAndExtractData(messages, currentData): the contents, their
\* lower-case forms and the extracted data are each computed once
updatePhaseAndExtractData(conversationMessages, currentData) ==
  CHOOSE updated \in
    UNION { UNION { { [ phase |-> DeterminePhase(extractedData, Len(contents)),
                        extractedData |-> extractedData ] :
                      extractedData \in {ExtractData(currentData, contents, lowered)} } :
                    lowered \in {Lowered(contents)} } :
            contents \in {UserContents(conversationMessages)} } : TRUE

\* what the generation service answers in a conversation
RemoteReply == "Tell me more."

\* the outcomes of one call of the service: every step succeeds, or an
\* insert of saveMessage returns an error, or callGeminiAPI throws (no key, a
\* status that is not ok)
ConversationOutcomes == {"done", "save failed", "generation failed"}

\* without a client supabase.from(...) throws in saveMessage, in
\* saveExtractedData and in submitAnswer: no insert is done
CanHappen(outcome) == (outcome = "done") => (supabase = "client")

\* startConversation(userId), when no step throws
startConversation ==
  [ sessionId |-> "session",
    messages |-> << [role |-> "assistant", content |-> RemoteReply,
                     message_type |-> "question"] >>,
    extractedData |-> NoExtractedData,
    currentPhase |-> "introduction",
    isComplete |-> FALSE ]

\* continueConversation(state, userMessage, responseTimeSeconds), when no
\* step throws, with one analysis of the message
continueConversation(state, userMessage, analysis) ==
  LET userMsg == [ role |-> "user", content |-> userMessage,
                   message_type |-> "answer",
                   emotion_detected |-> analysis.emotion,
                   tone_analysis |-> [ confidence |-> analysis.confidence,
                                       energy |-> analysis.energy,
                                       verbosity |-> analysis.verbosity,
                                       hesitation |-> analysis.hesitation,
                                       authenticity |-> analysis.authenticity ] ]
      updatedMessages == Append(state.messages, userMsg)
      assistantMsg(phase) == [ role |-> "assistant", content |-> RemoteReply,
                               message_type |-> IF phase = "completion"
                                                THEN "summary" ELSE "question" ]
  IN  CHOOSE returned \in
        { [ state |-> [ state EXCEPT
                          !.messages = Append(updatedMessages,
                                              assistantMsg(updated.phase)),
                          !.extractedData = updated.extractedData,
                          !.currentPhase = updated.phase,
                          !.isComplete = (updated.phase = "completion") ],
            aiResponse |-> [ message |-> RemoteReply,
                             nextAction |-> IF updated.phase = "completion"
                                            THEN "complete" ELSE "continue",
                             extractedData |-> updated.extractedData ] ] :
          updated \in {updatePhaseAndExtractData(updatedMessages,
                                                 state.extractedData)} } : TRUE

\* ------------------------------------------------------------------------
\* PsychologySession and the PsychologyQuestionnaire component
\* ------------------------------------------------------------------------

\* the questions initializeSession builds from n active templates
Templates(n) ==
  [i \in 1..n |-> [id |-> i, question |-> "What matters to you?",
                   category |-> "values"]]

\* PsychologySession.getCurrentQuestion() is not null
HasCurrentQuestion == currentQuestionIndex < Len(questions)

\* PsychologySession.isComplete()
SessionIsComplete(sessionResponses, sessionQuestions) ==
  Len(sessionResponses) >= Min(8, Len(sessionQuestions))

\* the answer PsychologyQuestionnaire submits and submitAnswer extends with
\* its analysis
SessionAnswerOf(question, trimmed, responseTime, analysis) ==
  [ questionId |-> question.id,
    question |-> question.question,
    answer |-> trimmed,
    responseMethod |-> "text",
    responseTimeSeconds |-> responseTime,
    emotionDetected |-> analysis.emotion,
    toneAnalysis |-> [ confidence |-> analysis.confidence,
                       energy |-> analysis.energy,
                       verbosity |-> analysis.verbosity,
                       hesitation |-> analysis.hesitation,
                       authenticity |-> analysis.authenticity ] ]

\* ------------------------------------------------------------------------
\* Specification of a questionnaire run: one of the components is mounted,
\* the user types and submits, the awaited calls return and the timers fire
\* ------------------------------------------------------------------------

\* what the user types: an answer, and blanks
FlowTexts == {"i", "  "}

\* seconds between the display of a question and its submission
ResponseTimes == {5}

Flows == {"enhanced", "psychological", "session", "conversational"}

\* the client of lib/supabase: createClient(...), or null when the URL or the
\* key is not configured; the two components that keep their own questions
\* make no use of it
ClientsOf(component) ==
  IF component \in {"session", "conversational"}
  THEN {"client", "null"}
  ELSE {"client"}

\* the questions at the start: the session holds the active templates
\* initializeSession loaded, and none when initializeSession threw on the
\* null client
InitialQuestions(component) ==
  CASE component = "enhanced" -> {FOUNDATIONAL_QUESTIONS}
    [] component = "psychological" -> {PSYCHOLOGICAL_QUESTIONS}
    [] component = "session" ->
         IF supabase = "client"
         THEN {Templates(n) : n \in 0..MaxTemplates}
         ELSE {<<>>}
    [] OTHER -> {<<>>}

InitFlow ==
  /\ AnalyzersIdle
  /\ AggregatorIdle
  /\ AppIdle
  /\ flow \in Flows
  /\ supabase \in ClientsOf(flow)
  /\ mounted = TRUE
  /\ questions \in InitialQuestions(flow)
  /\ currentQuestionIndex = 0
  /\ responses = <<>>
  /\ currentAnswer = ""
  /\ isSubmitting = FALSE
  /\ profileRuns = 0
  /\ delivered = <<>>
  /\ conversationState = NoConversation
  /\ messages = <<>>
  /\ isTyping = FALSE
  /\ error = ""
  /\ IF flow = "conversational"
     THEN /\ isLoading = TRUE
          /\ pending = << [step |-> "startConversation"] >>
     ELSE /\ isLoading = FALSE
          /\ pending = <<>>

\* the sequence without its i-th element
RemoveAt(s, i) == SubSeq(s, 1, i - 1) \o SubSeq(s, i + 1, Len(s))

\* a call or timer a handler waits for, with what its closure holds
Waiting(step, newAnswers) ==
  [ step |-> step, newAnswers |-> newAnswers,
    questionsLength |-> Len(questions),
    currentQuestionIndex |-> currentQuestionIndex ]

\* onChange of the textarea (disabled while isSubmitting in the two
\* components that keep their own questions)
TypeAnswer ==
  /\ mounted
  /\ HasCurrentQuestion
  /\ flow # "session" => ~isSubmitting
  /\ \E typed \in FlowTexts :
       /\ typed # currentAnswer
       /\ currentAnswer' = typed
  /\ UNCHANGED <<flow, supabase, mounted, questions, currentQuestionIndex, responses,
                 isSubmitting, pending, profileRuns, delivered>>
  /\ UNCHANGED conversationVars
  /\ UNCHANGED <<analyzerVars, aggregatorVars, appVars>>

\* EnhancedPsychQuestionnaire.handleSubmitAnswer, up to the await of
\* generateNextQuestion or to setTimeout; the button and the textarea are
\* disabled while isSubmitting
EnhancedHandleSubmitAnswer ==
  /\ flow = "enhanced"
  /\ mounted
  /\ ~isSubmitting
  /\ Trim(currentAnswer) # ""
  /\ HasCurrentQuestion
  /\ Len(responses) < MaxSubmissions
  /\ \E analysis \in EnhancedAnalyzeResponse(Trim(currentAnswer)),
        responseTime \in ResponseTimes :
       LET newAnswers ==
             Append(responses,
                    AnswerOf(questions[currentQuestionIndex + 1],
                             Trim(currentAnswer), responseTime, analysis))
       IN  /\ responses' = newAnswers
           /\ pending' =
                Append(pending,
                       Waiting(IF Len(newAnswers) < 9 /\ Len(newAnswers) >= 3
                               THEN "generateNextQuestion"
                               ELSE "setTimeout",
                               newAnswers))
  /\ isSubmitting' = TRUE
  /\ UNCHANGED <<flow, supabase, mounted, questions, currentQuestionIndex, currentAnswer,
                 profileRuns, delivered>>
  /\ UNCHANGED conversationVars
  /\ UNCHANGED <<analyzerVars, aggregatorVars, appVars>>

\* generateNextQuestion, from the return of the service to setTimeout
EnhancedGenerateNextQuestion ==
  /\ flow = "enhanced"
  /\ \E i \in DOMAIN pending :
       /\ pending[i].step = "generateNextQuestion"
       /\ \E outcome \in RemoteOutcomes :
            \E newQuestion \in
                 NewQuestions(pending[i].newAnswers, pending[i].questionsLength,
                              userName, outcome, DynamicQuestionThrows(outcome)) :
              questions' = Append(questions, newQuestion)
       /\ pending' = [pending EXCEPT ![i].step = "setTimeout"]
  /\ UNCHANGED <<flow, supabase, mounted, currentQuestionIndex, responses, currentAnswer,
                 isSubmitting, profileRuns, delivered>>
  /\ UNCHANGED conversationVars
  /\ UNCHANGED <<analyzerVars, aggregatorVars, appVars>>

\* the timer of EnhancedPsychQuestionnaire.handleSubmitAnswer: the next
\* question (the effect on currentQuestionIndex empties the textarea), or
\* generateFinalProfile up to its await
EnhancedTimeout ==
  /\ flow = "enhanced"
  /\ \E i \in DOMAIN pending :
       /\ pending[i].step = "setTimeout"
       /\ IF /\ pending[i].currentQuestionIndex < pending[i].questionsLength - 1
             /\ Len(pending[i].newAnswers) < 9
          THEN /\ currentQuestionIndex' = currentQuestionIndex + 1
               /\ currentAnswer' = ""
               /\ pending' = RemoveAt(pending, i)
               /\ UNCHANGED profileRuns
          ELSE IF Len(pending[i].newAnswers) >= 9
          THEN /\ profileRuns' = profileRuns + 1
               /\ pending' =
                    Append(RemoveAt(pending, i),
                           [pending[i] EXCEPT !.step = "analyzePsychologicalProfile"])
               /\ UNCHANGED <<currentQuestionIndex, currentAnswer>>
          ELSE /\ pending' = RemoveAt(pending, i)
               /\ UNCHANGED <<currentQuestionIndex, currentAnswer, profileRuns>>
  /\ isSubmitting' = FALSE
  /\ UNCHANGED <<flow, supabase, mounted, questions, responses, delivered>>
  /\ UNCHANGED conversationVars
  /\ UNCHANGED <<analyzerVars, aggregatorVars, appVars>>

\* generateFinalProfile, from the return of the service on: onComplete hands
\* the data to the parent, which leaves the questionnaire
EnhancedGenerateFinalProfile ==
  /\ flow = "enhanced"
  /\ \E i \in DOMAIN pending :
       /\ pending[i].step = "analyzePsychologicalProfile"
       /\ \E outcome \in RemoteOutcomes, answer \in RemoteProfileAnswers :
            delivered' =
              Append(delivered,
                     [ name |-> userName,
                       psych_profile |-> analyzePsychologicalProfile(outcome, answer),
                       answers |-> pending[i].newAnswers,
                       data_consent |-> allowDataUsage,
                       total_questions |-> Len(pending[i].newAnswers) ])
       /\ pending' = RemoveAt(pending, i)
  /\ mounted' = FALSE
  /\ UNCHANGED <<flow, supabase, questions, currentQuestionIndex, responses, currentAnswer,
                 isSubmitting, profileRuns>>
  /\ UNCHANGED conversationVars
  /\ UNCHANGED <<analyzerVars, aggregatorVars, appVars>>

\* PsychologicalQuestionnaire.handleSubmitAnswer, up to setTimeout
PsychologicalHandleSubmitAnswer ==
  /\ flow = "psychological"
  /\ mounted
  /\ ~isSubmitting
  /\ Trim(currentAnswer) # ""
  /\ HasCurrentQuestion
  /\ Len(responses) < MaxSubmissions
  /\ \E analysis \in PsychologicalAnalyzeResponse(Trim(currentAnswer)),
        responseTime \in ResponseTimes :
       LET newAnswers ==
             Append(responses,
                    AnswerOf(questions[currentQuestionIndex + 1],
                             Trim(currentAnswer), responseTime, analysis))
       IN  /\ responses' = newAnswers
           /\ pending' = Append(pending, Waiting("setTimeout", newAnswers))
  /\ isSubmitting' = TRUE
  /\ UNCHANGED <<flow, supabase, mounted, questions, currentQuestionIndex, currentAnswer,
                 profileRuns, delivered>>
  /\ UNCHANGED conversationVars
  /\ UNCHANGED <<analyzerVars, aggregatorVars, appVars>>

\* the timer of PsychologicalQuestionnaire.handleSubmitAnswer: the next
\* question, or the profile and onComplete
PsychologicalTimeout ==
  /\ flow = "psychological"
  /\ \E i \in DOMAIN pending :
       /\ pending[i].step = "setTimeout"
       /\ IF pending[i].currentQuestionIndex < Len(PSYCHOLOGICAL_QUESTIONS) - 1
          THEN /\ currentQuestionIndex' = currentQuestionIndex + 1
               /\ currentAnswer' = ""
               /\ UNCHANGED <<profileRuns, delivered, mounted>>
          ELSE /\ \E sides \in SidesOf(pending[i].newAnswers) :
                    delivered' =
                      Append(delivered,
                             generatePsychologicalProfile(
                               pending[i].newAnswers, allowDataUsage, userName,
                               sides, clock))
               /\ profileRuns' = profileRuns + 1
               /\ mounted' = FALSE
               /\ UNCHANGED <<currentQuestionIndex, currentAnswer>>
       /\ pending' = RemoveAt(pending, i)
  /\ isSubmitting' = FALSE
  /\ UNCHANGED <<flow, supabase, questions, responses>>
  /\ UNCHANGED conversationVars
  /\ UNCHANGED <<analyzerVars, aggregatorVars, appVars>>

\* PsychologyQuestionnaire.handleSubmitAnswer up to the await, with
\* PsychologySession.submitAnswer up to its await of the insert
SessionSubmits ==
  /\ HasCurrentQuestion
  /\ Trim(currentAnswer) # ""
  /\ Len(responses) < MaxSubmissions
  /\ Len(pending) < MaxInFlight
  /\ \E analysis \in SessionAnalyzeResponse(Trim(currentAnswer)),
        responseTime \in ResponseTimes :
       /\ responses' =
            Append(responses,
                   SessionAnswerOf(questions[currentQuestionIndex + 1],
                                   Trim(currentAnswer), responseTime, analysis))
       /\ pending' = Append(pending, Waiting("insert", <<>>))
  /\ isSubmitting' = TRUE
  /\ UNCHANGED <<flow, supabase, mounted, questions, currentQuestionIndex, currentAnswer,
                 profileRuns, delivered>>
  /\ UNCHANGED conversationVars
  /\ UNCHANGED <<analyzerVars, aggregatorVars, appVars>>

\* a click on the submit button, which is disabled while isSubmitting
SessionClickSubmit ==
  /\ flow = "session"
  /\ mounted
  /\ ~isSubmitting
  /\ SessionSubmits

\* the Enter key: the keydown listener of the window calls handleSubmitAnswer
\* whenever the answer is not blank, and the textarea is never disabled
SessionPressEnter ==
  /\ flow = "session"
  /\ mounted
  /\ SessionSubmits

\* the insert of submitAnswer returns: with an error submitAnswer throws
\* before it advances; without, the session advances and the component asks
\* isComplete()
SessionInsertReturnsWith(insertError) ==
  /\ flow = "session"
  /\ ~insertError => supabase = "client"
  /\ \E i \in DOMAIN pending :
       /\ pending[i].step = "insert"
       /\ pending' = RemoveAt(pending, i)
  /\ IF insertError
     THEN UNCHANGED <<currentQuestionIndex, currentAnswer, delivered, mounted>>
     ELSE /\ currentQuestionIndex' = currentQuestionIndex + 1
          /\ IF SessionIsComplete(responses, questions)
             THEN /\ delivered' = Append(delivered, [responses |-> responses])
                  /\ mounted' = FALSE
                  /\ UNCHANGED currentAnswer
             ELSE /\ currentAnswer' = ""
                  /\ UNCHANGED <<delivered, mounted>>
  /\ isSubmitting' = FALSE
  /\ UNCHANGED <<flow, supabase, questions, responses, profileRuns>>
  /\ UNCHANGED conversationVars
  /\ UNCHANGED <<analyzerVars, aggregatorVars, appVars>>

SessionInsertReturns ==
  \E insertError \in BOOLEAN : SessionInsertReturnsWith(insertError)

\* ------------------------------------------------------------------------
\* ConversationalQuestionnaire: the conversation component
\* ------------------------------------------------------------------------

\* what the user types in a conversation: a name, birth data, and blanks
ConversationTexts ==
  {"call me Ada", "born in Oslo on 1990-02-01 at 7:30 pm", "  "}

\* the messages on display for the messages of a conversation state
Displayed(conversationMessages) ==
  [k \in DOMAIN conversationMessages |->
     [role |-> conversationMessages[k].role,
      content |-> conversationMessages[k].content]]

\* the input is rendered when no error is shown and the conversation is not
\* complete, and is disabled while isLoading or isTyping
InputEnabled ==
  /\ mounted
  /\ error = ""
  /\ conversationState # NoConversation => ~conversationState.isComplete
  /\ ~isLoading
  /\ ~isTyping

\* onChange of the input
TypeMessage ==
  /\ flow = "conversational"
  /\ InputEnabled
  /\ \E typed \in ConversationTexts :
       /\ typed # currentAnswer
       /\ currentAnswer' = typed
  /\ UNCHANGED <<flow, supabase, mounted, pending, delivered>>
  /\ UNCHANGED <<questionnaireVars, conversationVars>>
  /\ UNCHANGED <<analyzerVars, aggregatorVars, appVars>>

\* initializeConversation, from the return of startConversation on
StartConversationReturnsWith(outcome) ==
  /\ flow = "conversational"
  /\ CanHappen(outcome)
  /\ \E i \in DOMAIN pending :
       /\ pending[i].step = "startConversation"
       /\ pending' = RemoveAt(pending, i)
  /\ IF outcome = "done"
     THEN /\ conversationState' = startConversation
          /\ messages' = Displayed(startConversation.messages)
          /\ UNCHANGED error
     ELSE /\ error' = "Failed to start conversation. Please try again."
          /\ UNCHANGED <<conversationState, messages>>
  /\ isLoading' = FALSE
  /\ UNCHANGED <<flow, supabase, mounted, currentAnswer, delivered, isTyping>>
  /\ UNCHANGED questionnaireVars
  /\ UNCHANGED <<analyzerVars, aggregatorVars, appVars>>

StartConversationReturns ==
  \E outcome \in ConversationOutcomes : StartConversationReturnsWith(outcome)

\* the button of the error screen: initializeConversation up to its await
TryAgain ==
  /\ flow = "conversational"
  /\ mounted
  /\ error # ""
  /\ isLoading' = TRUE
  /\ error' = ""
  /\ pending' = Append(pending, [step |-> "startConversation"])
  /\ UNCHANGED <<flow, supabase, mounted, currentAnswer, delivered, conversationState,
                 messages, isTyping>>
  /\ UNCHANGED questionnaireVars
  /\ UNCHANGED <<analyzerVars, aggregatorVars, appVars>>

\* sendMessage up to the await of continueConversation
SendMessage ==
  /\ flow = "conversational"
  /\ InputEnabled
  /\ Trim(currentAnswer) # ""
  /\ conversationState # NoConversation
  /\ ~isLoading
  /\ messages' = Append(messages, [role |-> "user", content |-> Trim(currentAnswer)])
  /\ currentAnswer' = ""
  /\ isLoading' = TRUE
  /\ isTyping' = TRUE
  /\ pending' = Append(pending, [ step |-> "continueConversation",
                                  state |-> conversationState,
                                  userMessage |-> Trim(currentAnswer) ])
  /\ UNCHANGED <<flow, supabase, mounted, delivered, conversationState, error>>
  /\ UNCHANGED questionnaireVars
  /\ UNCHANGED <<analyzerVars, aggregatorVars, appVars>>

\* sendMessage from the return of continueConversation on: the new state and
\* the typing timer, or the error
ContinueConversationReturnsWith(outcome) ==
  /\ flow = "conversational"
  /\ CanHappen(outcome)
  /\ \E i \in DOMAIN pending :
       /\ pending[i].step = "continueConversation"
       /\ IF outcome = "done"
          THEN /\ \E analysis \in
                      ConversationalAnalyzeUserResponse(pending[i].userMessage) :
                    \E returned \in
                          {continueConversation(pending[i].state,
                                                pending[i].userMessage, analysis)} :
                        /\ conversationState' = returned.state
                        /\ pending' =
                             [pending EXCEPT ![i] =
                                [ step |-> "typing", state |-> returned.state,
                                  aiResponse |-> returned.aiResponse ]]
               /\ UNCHANGED <<error, isTyping>>
          ELSE /\ error' = "Failed to send message. Please try again."
               /\ isTyping' = FALSE
               /\ pending' = RemoveAt(pending, i)
               /\ UNCHANGED conversationState
  /\ isLoading' = FALSE
  /\ UNCHANGED <<flow, supabase, mounted, currentAnswer, delivered, messages>>
  /\ UNCHANGED questionnaireVars
  /\ UNCHANGED <<analyzerVars, aggregatorVars, appVars>>

ContinueConversationReturns ==
  \E outcome \in ConversationOutcomes : ContinueConversationReturnsWith(outcome)

\* the typing timer: the reply is displayed, and the completion timer is set
\* when the new state is complete
TypingTimeout ==
  /\ flow = "conversational"
  /\ \E i \in DOMAIN pending :
       /\ pending[i].step = "typing"
       /\ messages' = Append(messages, [ role |-> "assistant",
                                         content |-> pending[i].aiResponse.message ])
       /\ pending' = IF pending[i].state.isComplete
                     THEN [pending EXCEPT ![i].step = "complete"]
                     ELSE RemoveAt(pending, i)
  /\ isTyping' = FALSE
  /\ UNCHANGED <<flow, supabase, mounted, currentAnswer, delivered, conversationState,
                 isLoading, error>>
  /\ UNCHANGED questionnaireVars
  /\ UNCHANGED <<analyzerVars, aggregatorVars, appVars>>

\* the completion timer: handleConversationComplete up to the await of
\* saveExtractedData
CompleteTimeout ==
  /\ flow = "conversational"
  /\ \E i \in DOMAIN pending :
       /\ pending[i].step = "complete"
       /\ pending' = [pending EXCEPT ![i].step = "saveExtractedData"]
  /\ UNCHANGED <<flow, supabase, mounted, currentAnswer, delivered>>
  /\ UNCHANGED <<questionnaireVars, conversationVars>>
  /\ UNCHANGED <<analyzerVars, aggregatorVars, appVars>>

\* handleConversationComplete from the return of saveExtractedData on
SaveExtractedDataReturnsWith(saveError) ==
  /\ flow = "conversational"
  /\ ~saveError => supabase = "client"
  /\ \E i \in DOMAIN pending :
       /\ pending[i].step = "saveExtractedData"
       /\ IF saveError
          THEN /\ error' = "Failed to save conversation. Please try again."
               /\ UNCHANGED <<delivered, mounted>>
          ELSE /\ delivered' = Append(delivered, pending[i].state.extractedData)
               /\ mounted' = FALSE
               /\ UNCHANGED error
       /\ pending' = RemoveAt(pending, i)
  /\ UNCHANGED <<flow, supabase, currentAnswer, conversationState, messages, isLoading,
                 isTyping>>
  /\ UNCHANGED questionnaireVars
  /\ UNCHANGED <<analyzerVars, aggregatorVars, appVars>>

SaveExtractedDataReturns ==
  \E saveError \in BOOLEAN : SaveExtractedDataReturnsWith(saveError)

NextFlow ==
  \/ TypeAnswer
  \/ EnhancedHandleSubmitAnswer
  \/ EnhancedGenerateNextQuestion
  \/ EnhancedTimeout
  \/ EnhancedGenerateFinalProfile
  \/ PsychologicalHandleSubmitAnswer
  \/ PsychologicalTimeout
  \/ SessionClickSubmit
  \/ SessionPressEnter
  \/ SessionInsertReturns
  \/ TypeMessage
  \/ StartConversationReturns
  \/ TryAgain
  \/ SendMessage
  \/ ContinueConversationReturns
  \/ TypingTimeout
  \/ CompleteTimeout
  \/ SaveExtractedDataReturns

SpecFlow == InitFlow /\ [][NextFlow]_vars

\* ------------------------------------------------------------------------
\* The app store under its actions and handleAsyncError
\* ------------------------------------------------------------------------

\* the users, messages, conversation data and reports the actions are given
StoreUsers ==
  {NoUser} \cup {[id |-> id, profile_completed |-> completed] :
                   id \in {"u-1", "temp-1"}, completed \in BOOLEAN}

StoreMessages == {Null, "No internet connection. Please check your network."}

LoadingMessages == {"", "Generating your report..."}

StoreReports == {NoReport, [id |-> 1]}

\* a call of handleAsyncError whose asyncFn is running; mode tells how asyncFn
\* goes on: "resolved" when its body ran to its end without the database,
\* "rejected" when it threw, "database" when it awaits an answer
AsyncCall(fn, user, updates, mode, report) ==
  [ fn |-> fn, user |-> user, updates |-> updates, mode |-> mode,
    report |-> report ]

\* the rest of the app is left alone by a step on the store
StoreOnly ==
  UNCHANGED <<analyzerVars, aggregatorVars, flowVars, authUser, localStorage,
              database, reports, dateNow>>

SetUser ==
  /\ \E user \in StoreUsers : appStore' = setUser(appStore, user)
  /\ UNCHANGED asyncCalls
  /\ StoreOnly

SetCurrentStep ==
  /\ \E step \in 0..MaxStep : appStore' = setCurrentStep(appStore, step)
  /\ UNCHANGED asyncCalls
  /\ StoreOnly

SetFormStep ==
  /\ \E step \in 0..MaxStep : appStore' = setFormStep(appStore, step)
  /\ UNCHANGED asyncCalls
  /\ StoreOnly

SetLoading ==
  /\ \E loading \in BOOLEAN, message \in LoadingMessages :
       appStore' = setLoading(appStore, loading, message)
  /\ UNCHANGED asyncCalls
  /\ StoreOnly

\* setError, as monitorConnection and the hooks call it
SetError ==
  /\ \E message \in StoreMessages : appStore' = setError(appStore, message)
  /\ UNCHANGED asyncCalls
  /\ StoreOnly

SetConversationData ==
  /\ \E data \in {"{}", "{name}"} :
       appStore' = setConversationData(appStore, data)
  /\ UNCHANGED asyncCalls
  /\ StoreOnly

SetCurrentReport ==
  /\ \E report \in StoreReports : appStore' = setCurrentReport(appStore, report)
  /\ UNCHANGED asyncCalls
  /\ StoreOnly

Reset ==
  /\ appStore' = InitialState
  /\ UNCHANGED asyncCalls
  /\ StoreOnly

\* handleAsyncError(asyncFn) runs up to its await: asyncFn is running
HandleAsyncError ==
  /\ Len(asyncCalls) < MaxAsync
  /\ appStore' = HandleAsyncErrorBegins(appStore)
  /\ \E mode \in {"resolved", "rejected"} :
       asyncCalls' =
         Append(asyncCalls, AsyncCall("asyncFn", NoUser, FALSE, mode, NoReport))
  /\ StoreOnly

\* the message of the error thrown on an error of the database
DatabaseErrorMessage(fn) ==
  CASE fn = "updateUserProfile" -> "Failed to update profile"
    [] fn = "shareReport" -> "Failed to update sharing settings"
    [] OTHER -> "Failed to fetch reports"

\* the message of what an asyncFn throws without an answer of the database:
\* not an Error for the asyncFn of the store specification, and the TypeError
\* of supabase.from on the null client for the callbacks of the hook
ThrownMessage(fn) ==
  IF fn = "asyncFn" THEN "An error occurred"
  ELSE "Cannot read properties of null (reading 'from')"

\* the asyncFn of call k, which needed no answer of the database, settles
AsyncFnSettles ==
  /\ \E k \in DOMAIN asyncCalls :
       /\ asyncCalls[k].mode \in {"resolved", "rejected"}
       /\ asyncCalls[k].fn # "generateReport"
       /\ appStore' =
            IF asyncCalls[k].mode = "resolved"
            THEN HandleAsyncErrorResolves(appStore)
            ELSE HandleAsyncErrorRejects(appStore,
                                         ThrownMessage(asyncCalls[k].fn))
       /\ asyncCalls' = RemoveAt(asyncCalls, k)
  /\ StoreOnly

InitStore ==
  /\ AnalyzersIdle
  /\ AggregatorIdle
  /\ FlowIdle
  /\ AppIdle

NextStore ==
  \/ SetUser
  \/ SetCurrentStep
  \/ SetFormStep
  \/ SetLoading
  \/ SetError
  \/ SetConversationData
  \/ SetCurrentReport
  \/ Reset
  \/ HandleAsyncError
  \/ AsyncFnSettles

SpecStore == InitStore /\ [][NextStore]_vars

\* ------------------------------------------------------------------------
\* useAstroPsyche and generateFinalReport
\* ------------------------------------------------------------------------

\* the users useAuth can give; the id comes from the authentication service
AuthUsers ==
  {[id |-> id, profile_completed |-> FALSE] : id \in {"u-1", "temp-1"}}

\* user.id.startsWith('temp-')
IsTemporary(user) == Len(user.id) >= 5 /\ SubSeq(user.id, 1, 5) = "temp-"

\* the user written by the catch of createUser is the one of the local storage
FellBack(user) == user # NoUser /\ localStorage.astropsyche_user.id = user.id

saveReportToLocalStorage(existingReports, report) ==
  Append(existingReports, report)

generateFinalReportAlwaysLocal(existingReports, reportData, outcome) ==
  [ report |-> reportData,
    astropsyche_reports |->
      saveReportToLocalStorage(existingReports, reportData) ]

\* generateFinalReport on the local list existingReports, outcome being
\* "demo" without a client, else what the insert did: "stored", "error" (it
\* returned an error) or "threw"
generateFinalReport(existingReports, reportData, outcome) ==
  IF outcome = "stored"
  THEN [report |-> reportData, astropsyche_reports |-> existingReports]
  ELSE [ report |-> reportData,
         astropsyche_reports |->
           saveReportToLocalStorage(existingReports, reportData) ]

\* the rest of the app is left alone by a step of the hook
HookOnly == UNCHANGED <<analyzerVars, aggregatorVars, flowVars, authUser>>

\* createUser(birthData): the body up to the answer of the insert; on the
\* null client the TypeError is caught by the inner catch at once
CreateUser ==
  /\ \/ /\ authUser = NoUser
        /\ appStore' = setError(appStore, "Please log in first")
        /\ UNCHANGED <<asyncCalls, localStorage>>
     \/ /\ authUser # NoUser
        /\ Len(asyncCalls) < MaxAsync
        /\ \E userData \in {[id |-> authUser.id, profile_completed |-> FALSE]} :
             IF supabase = "null"
             THEN /\ localStorage' =
                       [localStorage EXCEPT !.astropsyche_user = userData]
                  /\ appStore' =
                       setUser(HandleAsyncErrorBegins(appStore), userData)
                  /\ asyncCalls' =
                       Append(asyncCalls, AsyncCall("createUser", userData,
                                                    FALSE, "resolved", NoReport))
             ELSE /\ appStore' = HandleAsyncErrorBegins(appStore)
                  /\ asyncCalls' =
                       Append(asyncCalls, AsyncCall("createUser", userData,
                                                    FALSE, "database", NoReport))
                  /\ UNCHANGED localStorage
  /\ UNCHANGED <<database, reports, dateNow>>
  /\ HookOnly

\* the insert of createUser answers: "created", "astrology failed" when
\* generateAstrologyReport threw after it, or "insert failed"
CreateUserReturnsWith(outcome) ==
  /\ \E k \in DOMAIN asyncCalls :
       /\ asyncCalls[k].fn = "createUser"
       /\ asyncCalls[k].mode = "database"
       /\ database' =
            IF outcome = "insert failed" THEN database
            ELSE [database EXCEPT !.users = @ \cup {asyncCalls[k].user.id}]
       /\ localStorage' =
            IF outcome = "created" THEN localStorage
            ELSE [localStorage EXCEPT !.astropsyche_user = asyncCalls[k].user]
       /\ appStore' =
            HandleAsyncErrorResolves(setUser(appStore, asyncCalls[k].user))
       /\ asyncCalls' = RemoveAt(asyncCalls, k)
  /\ UNCHANGED <<reports, dateNow>>
  /\ HookOnly

CreateUserReturns ==
  \E outcome \in {"created", "astrology failed", "insert failed"} :
    CreateUserReturnsWith(outcome)

\* the body of updateUserProfile(updates) inside handleAsyncError, for the user
\* of the render the callback was made in: the store, the stored user and the
\* running call it leaves
UpdateUserProfileBody(state, stored, user, updates) ==
  IF IsTemporary(user)
  THEN [ store |-> setUser(HandleAsyncErrorBegins(state),
                           [user EXCEPT !.profile_completed = updates]),
         astropsyche_user |-> [user EXCEPT !.profile_completed = updates],
         call |-> AsyncCall("updateUserProfile", user, updates, "resolved",
                            NoReport) ]
  ELSE [ store |-> HandleAsyncErrorBegins(state),
         astropsyche_user |-> stored,
         call |-> AsyncCall("updateUserProfile", user, updates,
                            IF supabase = "null" THEN "rejected"
                            ELSE "database", NoReport) ]

UpdateUserProfile ==
  /\ \/ /\ appStore.user = NoUser
        /\ appStore' = setError(appStore, "No user logged in")
        /\ UNCHANGED <<asyncCalls, localStorage>>
     \/ /\ appStore.user # NoUser
        /\ Len(asyncCalls) < MaxAsync
        /\ \E updates \in BOOLEAN :
             \E body \in {UpdateUserProfileBody(
                            appStore, localStorage.astropsyche_user,
                            appStore.user, updates)} :
               /\ appStore' = body.store
               /\ localStorage' =
                    [localStorage EXCEPT
                       !.astropsyche_user = body.astropsyche_user]
               /\ asyncCalls' = Append(asyncCalls, body.call)
  /\ UNCHANGED <<database, reports, dateNow>>
  /\ HookOnly

\* how the body of shareReport and of getUserReports goes on for user
ReadMode(user) ==
  IF user # NoUser /\ IsTemporary(user) THEN "resolved"
  ELSE IF supabase = "null" THEN "rejected"
  ELSE "database"

\* shareReport(reportId) for the report on display
ShareReport ==
  /\ Len(asyncCalls) < MaxAsync
  /\ appStore' = HandleAsyncErrorBegins(appStore)
  /\ asyncCalls' =
       Append(asyncCalls, AsyncCall("shareReport", appStore.user, FALSE,
                                    ReadMode(appStore.user),
                                    appStore.currentReport))
  /\ UNCHANGED <<localStorage, database, reports, dateNow>>
  /\ HookOnly

GetUserReports ==
  /\ appStore.user # NoUser
  /\ Len(asyncCalls) < MaxAsync
  /\ appStore' = HandleAsyncErrorBegins(appStore)
  /\ asyncCalls' =
       Append(asyncCalls, AsyncCall("getUserReports", appStore.user, FALSE,
                                    ReadMode(appStore.user), NoReport))
  /\ UNCHANGED <<localStorage, database, reports, dateNow>>
  /\ HookOnly

\* the row the request of call can find in the database
RowFound(call) ==
  CASE call.fn = "updateUserProfile" -> call.user.id \in database.users
    [] call.fn = "shareReport" ->
         \E i \in DOMAIN database.final_reports :
           database.final_reports[i] = call.report
    [] OTHER -> TRUE

\* the database answers the request of updateUserProfile, shareReport or
\* getUserReports, with a row or with an error
DatabaseAnswersWith(ok) ==
  /\ \E k \in DOMAIN asyncCalls :
       /\ asyncCalls[k].fn \in
            {"updateUserProfile", "shareReport", "getUserReports"}
       /\ asyncCalls[k].mode = "database"
       /\ ok => RowFound(asyncCalls[k])
       /\ appStore' =
            IF ~ok
            THEN HandleAsyncErrorRejects(appStore,
                                         DatabaseErrorMessage(asyncCalls[k].fn))
            ELSE IF asyncCalls[k].fn = "updateUserProfile"
            THEN HandleAsyncErrorResolves(
                   setUser(appStore,
                           [asyncCalls[k].user EXCEPT
                              !.profile_completed = asyncCalls[k].updates]))
            ELSE HandleAsyncErrorResolves(appStore)
       /\ asyncCalls' = RemoveAt(asyncCalls, k)
  /\ UNCHANGED <<localStorage, database, reports, dateNow>>
  /\ HookOnly

DatabaseAnswers == \E ok \in BOOLEAN : DatabaseAnswersWith(ok)

\* the calls of generateFinalReport made so far
ReportsStarted ==
  Len(reports)
    + Cardinality({k \in DOMAIN asyncCalls :
                     /\ asyncCalls[k].fn = "generateReport"
                     /\ asyncCalls[k].mode = "database"})

\* generateReport(conversationData) up to the first await of
\* generateFinalReport: without a client the report is saved locally at once
GenerateReport ==
  /\ \/ /\ appStore.user = NoUser
        /\ appStore' = setError(appStore, "No user logged in")
        /\ UNCHANGED <<asyncCalls, localStorage, reports, dateNow>>
     \/ /\ appStore.user # NoUser
        /\ Len(asyncCalls) < MaxAsync
        /\ ReportsStarted < MaxReports
        /\ \E t \in {dateNow, dateNow + 1} :
             /\ t <= MaxReports
             /\ dateNow' = t
             /\ appStore' = HandleAsyncErrorBegins(appStore)
             /\ IF supabase = "null"
                THEN /\ localStorage' =
                          [localStorage EXCEPT
                             !.astropsyche_reports =
                                generateFinalReport(@, [id |-> t], "demo")
                                  .astropsyche_reports]
                     /\ reports' =
                          Append(reports,
                                 [report |-> [id |-> t], outcome |-> "demo"])
                     /\ asyncCalls' =
                          Append(asyncCalls,
                                 AsyncCall("generateReport", appStore.user,
                                           FALSE, "resolved", [id |-> t]))
                ELSE /\ asyncCalls' =
                          Append(asyncCalls,
                                 AsyncCall("generateReport", appStore.user,
                                           FALSE, "database", [id |-> t]))
                     /\ UNCHANGED <<localStorage, reports>>
  /\ UNCHANGED database
  /\ HookOnly

\* generateFinalReport returns to generateReport, after what the insert did
\* where there is a client; generateReport shows the report and calls
\* updateUserProfile({profile_completed: true}), whose handleAsyncError is
\* then the one that is running
GenerateFinalReportReturnsWith(outcome) ==
  /\ \E k \in DOMAIN asyncCalls :
       /\ asyncCalls[k].fn = "generateReport"
       /\ (outcome = "demo") <=> (asyncCalls[k].mode = "resolved")
       /\ \E final \in
              {IF outcome = "demo"
               THEN [ report |-> asyncCalls[k].report,
                      astropsyche_reports |-> localStorage.astropsyche_reports ]
               ELSE generateFinalReport(localStorage.astropsyche_reports,
                                        asyncCalls[k].report, outcome)} :
            \E body \in {UpdateUserProfileBody(
                           setCurrentReport(appStore, final.report),
                           localStorage.astropsyche_user,
                           asyncCalls[k].user, TRUE)} :
              /\ appStore' = body.store
              /\ localStorage' =
                   [ astropsyche_user |-> body.astropsyche_user,
                     astropsyche_reports |-> final.astropsyche_reports ]
              /\ asyncCalls' = [asyncCalls EXCEPT ![k] = body.call]
              /\ reports' =
                   IF outcome = "demo" THEN reports
                   ELSE Append(reports,
                               [report |-> final.report, outcome |-> outcome])
       /\ database' =
            IF outcome = "stored"
            THEN [database EXCEPT
                    !.final_reports = Append(@, asyncCalls[k].report)]
            ELSE database
  /\ UNCHANGED dateNow
  /\ HookOnly

GenerateFinalReportReturns ==
  \E outcome \in {"demo", "stored", "error", "threw"} :
    GenerateFinalReportReturnsWith(outcome)

\* the effect that loads the user of the local storage when it is the one
\* logged in and the store has none
LoadStoredUser ==
  /\ authUser # NoUser
  /\ appStore.user = NoUser
  /\ localStorage.astropsyche_user.id = authUser.id
  /\ appStore' = setUser(appStore, localStorage.astropsyche_user)
  /\ UNCHANGED <<asyncCalls, localStorage, database, reports, dateNow>>
  /\ HookOnly

\* a visit of the app: with or without a client, logged in or not, with the
\* fallback user of an earlier visit in the local storage or without
InitHook ==
  /\ AnalyzersIdle
  /\ AggregatorIdle
  /\ ComponentsIdle
  /\ supabase \in {"client", "null"}
  /\ appStore = InitialState
  /\ asyncCalls = <<>>
  /\ authUser \in AuthUsers \cup {NoUser}
  /\ localStorage \in
       {[astropsyche_user |-> user, astropsyche_reports |-> <<>>] :
          user \in {NoUser, authUser}}
  /\ database = [users |-> {}, final_reports |-> <<>>]
  /\ reports = <<>>
  /\ dateNow = 1

NextHook ==
  \/ CreateUser
  \/ CreateUserReturns
  \/ UpdateUserProfile
  \/ ShareReport
  \/ GetUserReports
  \/ DatabaseAnswers
  \/ GenerateReport
  \/ GenerateFinalReportReturns
  \/ LoadStoredUser
  \/ AsyncFnSettles

SpecHook == InitHook /\ [][NextHook]_vars

\* ------------------------------------------------------------------------
\* Vocabulary of the properties
\* ------------------------------------------------------------------------

Called == variant # "none"

Emotions ==
  {"joy", "sadness", "anger", "fear", "surprise", "contemplative",
   "confident", "vulnerable", "neutral"}

InUnitInterval(x) == x \in 0..100

\* the emotion table, the hedge list and the intensifier list of the called
\* analyzer
TableOfCall ==
  CASE variant = "enhanced" -> EnhancedEmotionKeywords
    [] variant = "psychological" -> PsychologicalEmotionKeywords
    [] variant = "session" -> SessionEmotionKeywords
    [] variant = "conversational" -> ConversationalEmotionKeywords

HedgesOfCall ==
  CASE variant = "enhanced" -> EnhancedHesitant
    [] variant = "psychological" -> PsychologicalHesitant
    [] variant = "session" -> SessionHesitant
    [] variant = "conversational" -> ConversationalHesitant

IntensifiersOfCall ==
  CASE variant = "enhanced" -> EnhancedEnergetic
    [] variant = "psychological" -> PsychologicalEnergetic
    [] variant = "session" -> SessionEnergetic
    [] variant = "conversational" -> ConversationalEnergetic

\* the entries of the table whose match count is the greatest
Leaders ==
  {e \in DOMAIN result.matches :
     \A f \in DOMAIN result.matches : result.matches[f] <= result.matches[e]}

NoMatch == \A e \in DOMAIN result.matches : result.matches[e] = 0

\* r is 100 * n / d rounded to the nearest integer, halves up
IsRounded(r, n, d) == 2 * d * r <= 200 * n + d /\ 200 * n + d < 2 * d * r + 2 * d

\* r is 100 * n / d rounded to a nearest integer
IsNearest(r, n, d) == 2 * d * r <= 200 * n + d /\ 200 * n - d <= 2 * d * r

\* ------------------------------------------------------------------------
\* C1 - the result of every analyzer is well formed
\* ------------------------------------------------------------------------

\* C1: on every input string each of the four analyzers returns (every step
\* of it is defined and it has a result), and the returned emotion is one of
\* the nine labels and each of the five tone values lies in [0, 1]
C1_WellFormed ==
  /\ ~Called =>
       /\ EnhancedAnalyzeResponse(text) # {}
       /\ PsychologicalAnalyzeResponse(text) # {}
       /\ SessionAnalyzeResponse(text) # {}
       /\ ConversationalAnalyzeUserResponse(text) # {}
  /\ Called =>
       /\ result.emotion \in Emotions
       /\ InUnitInterval(result.confidence)
       /\ InUnitInterval(result.energy)
       /\ InUnitInterval(result.verbosity)
       /\ InUnitInterval(result.hesitation)
       /\ InUnitInterval(result.authenticity)

\* an analyzer has returned on an input without any letter
C1_Witness ==
  /\ text = "\t"
  /\ variant = "conversational"
  /\ result.emotion = "neutral"
  /\ result.authenticity = 100

\* ------------------------------------------------------------------------
\* C2 - which emotion is detected
\* ------------------------------------------------------------------------

\* C2 as stated: a strictly greatest match count wins, and a shared greatest
\* count or no match at all gives neutral
C2_TiesGiveNeutral ==
  Called =>
    /\ \A e \in Leaders :
         Cardinality(Leaders) = 1 /\ ~NoMatch
           => result.emotion = TableOfCall[e].emotion
    /\ Cardinality(Leaders) > 1 => result.emotion = "neutral"

\* C2 amended: a strictly greatest match count wins; no match at all gives
\* neutral; a shared greatest count above zero gives one of the emotions
\* that share it, and never neutral
C2_StrictWinnerElseNeutralOnlyWithoutMatch ==
  Called =>
    /\ \A e \in Leaders :
         Cardinality(Leaders) = 1 /\ ~NoMatch
           => result.emotion = TableOfCall[e].emotion
    /\ NoMatch => result.emotion = "neutral"
    /\ Cardinality(Leaders) > 1 /\ ~NoMatch =>
         /\ \E e \in Leaders : result.emotion = TableOfCall[e].emotion
         /\ result.emotion # "neutral"

\* no keyword of any emotion occurs in the text, and neutral was returned
C2_Witness ==
  /\ text = "i very"
  /\ variant = "enhanced"
  /\ NoMatch
  /\ result.emotion = "neutral"

\* ------------------------------------------------------------------------
\* C3 - ties go to the first emotion of the table
\* ------------------------------------------------------------------------

\* C3: when several emotions share the greatest match count and it is not
\* zero, the returned emotion is the first of them in the order of the table
C3_FirstOfTiedWins ==
  Called /\ ~NoMatch =>
    \E e \in Leaders :
      /\ \A f \in Leaders : e <= f
      /\ result.emotion = TableOfCall[e].emotion

\* joy, sadness and contemplative have one match each, and joy was returned
C3_Witness ==
  /\ text = "Wonderfully sad"
  /\ variant = "enhanced"
  /\ Leaders = {1, 2, 6}
  /\ result.emotion = "joy"

\* ------------------------------------------------------------------------
\* C4 - what a match count counts
\* ------------------------------------------------------------------------

\* C4: the match count of an emotion is the number of its keywords that
\* occur in the lower-cased text (a keyword has no whitespace, so it occurs
\* in the text exactly when it occurs inside one of its tokens), each keyword
\* counted once however many tokens contain it
C4_MatchCountIsKeywordsOccurring ==
  Called =>
    LET lowered == ToLowerCase(text)
    IN \A e \in DOMAIN result.matches :
         result.matches[e] =
           Cardinality({k \in DOMAIN TableOfCall[e].keywords :
                          Includes(lowered, TableOfCall[e].keywords[k])})

\* "wonderful" occurs inside a longer, upper-case token and "sad" in two
\* tokens: joy and sadness have one match each
C4_Witness ==
  /\ text = "Wonderfully sad sad"
  /\ variant = "enhanced"
  /\ result.matches[1] = 1
  /\ result.matches[2] = 1

\* ------------------------------------------------------------------------
\* C5 - normalisation of the text
\* ------------------------------------------------------------------------

\* C5: in every analyzer the words are the non-empty whitespace-delimited
\* tokens of the lower-cased text and wordCount is their number (0 for the
\* empty string, unchanged by repeated, leading or trailing whitespace)
C5_WordsAreNonEmptyTokens ==
  Called =>
    /\ result.words = NormalizeFiltered(text)
    /\ result.wordCount = Len(NormalizeFiltered(text))
    /\ text = "" => result.wordCount = 0

\* ------------------------------------------------------------------------
\* C6 - confidence and verbosity
\* ------------------------------------------------------------------------

\* C6 as stated: in every analyzer confidence is min(1, wordCount / 15) and
\* verbosity is min(1, wordCount / 30), rounded to two decimals
C6_FifteenAndThirtyEverywhere ==
  Called =>
    /\ IsRounded(result.confidence,
                 IF result.wordCount < 15 THEN result.wordCount ELSE 15, 15)
    /\ IsRounded(result.verbosity,
                 IF result.wordCount < 30 THEN result.wordCount ELSE 30, 30)

\* the word counts at which confidence and verbosity reach 1 in the called
\* analyzer
C6_FullConfidence == IF variant = "session" THEN 20 ELSE 15

C6_FullVerbosity == IF variant = "session" THEN 50 ELSE 30

\* C6 amended: confidence is min(1, wordCount / 15) and verbosity is
\* min(1, wordCount / 30), rounded to two decimals, in the two questionnaire
\* analyzers and in the conversational service; PsychologySession computes
\* min(1, wordCount / 20) and min(1, wordCount / 50)
C6_ConfidenceAndVerbosityPerAnalyzer ==
  Called =>
    /\ IsRounded(result.confidence,
                 IF result.wordCount < C6_FullConfidence
                 THEN result.wordCount ELSE C6_FullConfidence,
                 C6_FullConfidence)
    /\ IsRounded(result.verbosity,
                 IF result.wordCount < C6_FullVerbosity
                 THEN result.wordCount ELSE C6_FullVerbosity,
                 C6_FullVerbosity)

\* an input of more than 30 words: both values are capped at 1
C6_Witness ==
  /\ variant = "enhanced"
  /\ result.wordCount > 30
  /\ result.confidence = 100
  /\ result.verbosity = 100

\* ------------------------------------------------------------------------
\* C7 - monotonicity in the word count (two calls, specification SpecPair)
\* ------------------------------------------------------------------------

\* C7: of two inputs given to one analyzer, the one with fewer words has no
\* greater confidence when the larger word count is at most 15, and no
\* greater verbosity when it is at most 30
C7_MonotoneInWordCount ==
  Called =>
    /\ result.wordCount < result2.wordCount /\ result2.wordCount <= 15
         => result.confidence <= result2.confidence
    /\ result2.wordCount < result.wordCount /\ result.wordCount <= 15
         => result2.confidence <= result.confidence
    /\ result.wordCount < result2.wordCount /\ result2.wordCount <= 30
         => result.verbosity <= result2.verbosity
    /\ result2.wordCount < result.wordCount /\ result.wordCount <= 30
         => result2.verbosity <= result.verbosity

\* 3 words against 12 words: the confidence and the verbosity both rise
C7_Witness ==
  /\ variant = "enhanced"
  /\ result.wordCount = 3
  /\ result2.wordCount = 12
  /\ result.confidence < result2.confidence
  /\ result.verbosity < result2.verbosity

\* ------------------------------------------------------------------------
\* C8 - text that is empty after trimming
\* ------------------------------------------------------------------------

C9_EveryListedKeywordCounts ==
  Called =>
    LET lowered == ToLowerCase(text)
        den == IF result.wordCount > 1 THEN result.wordCount ELSE 1
    IN /\ IsNearest(result.hesitation, result.hesitant, den)
       /\ IsNearest(result.energy, result.energetic, den)
       /\ \A k \in DOMAIN HedgesOfCall :
            Includes(lowered, HedgesOfCall[k]) => result.hesitant >= 1
       /\ \A k \in DOMAIN IntensifiersOfCall :
            Includes(lowered, IntensifiersOfCall[k]) => result.energetic >= 1

\* ------------------------------------------------------------------------
\* C10 - the emotional term of the composite authenticity
\* ------------------------------------------------------------------------

\* the words that contain a keyword of any emotion
C10_EmotionalTokens ==
  Cardinality({w \in DOMAIN result.words :
                 \E e \in DOMAIN EnhancedEmotionKeywords :
                   \E k \in DOMAIN EnhancedEmotionKeywords[e].keywords :
                     Includes(result.words[w],
                              EnhancedEmotionKeywords[e].keywords[k])})

\* C10: in EnhancedPsychQuestionnaire the emotional term is 0.2 times the
\* fraction of tokens that contain a keyword of any emotion, and the
\* authenticity is at least 0.3 and at most 1
C10_EmotionalTermIsTokenFraction ==
  variant = "enhanced" =>
    LET den == IF result.wordCount > 1 THEN result.wordCount ELSE 1
        sum == 3 * result.personalPronouns + 3 * result.specificDetails
                 + 2 * C10_EmotionalTokens + 2 * (den - result.hesitant)
        num == IF sum < 3 * den THEN 3 * den
               ELSE IF sum > 10 * den THEN 10 * den ELSE sum
    IN /\ IsNearest(result.authenticity, num, 10 * den)
       /\ result.authenticity >= 30
       /\ result.authenticity <= 100

\* ------------------------------------------------------------------------
\* Vocabulary of the properties of the aggregator
\* ------------------------------------------------------------------------

Returned(p) == p # NoProfile

DominantOf(p) == p.psych_profile.response_patterns.dominant_emotion

\* archetype, motivational type and communication mode of a profile
ChosenOf(p) ==
  [ archetype |-> p.psych_profile.archetype,
    motivationalType |-> p.psych_profile.motivational_type,
    communicationMode |-> p.psych_profile.communication_mode ]

EmotionsOf(list) == {list[i].emotionDetected : i \in 1..Len(list)}

Frequency(list, emotion) ==
  Cardinality({i \in 1..Len(list) : list[i].emotionDetected = emotion})

FirstAt(list, emotion) ==
  CHOOSE i \in 1..Len(list) :
    /\ list[i].emotionDetected = emotion
    /\ \A j \in 1..(i - 1) : list[j].emotionDetected # emotion

\* the average of one tone value of a session, as the code computes it
MeanOf(list, sides, m) ==
  Quotient(SumOfTone(list, m), 100 * Len(list), sides[m])

\* which of the three tone-threshold rules hold for a session
ToneRulesHeld(list, sides) ==
  << StorytellerRule(MeanOf(list, sides, "verbosity"),
                     MeanOf(list, sides, "authenticity")),
     VisionaryRule(MeanOf(list, sides, "confidence"),
                   MeanOf(list, sides, "hesitation")),
     AnalystRule(MeanOf(list, sides, "hesitation"),
                 MeanOf(list, sides, "authenticity")) >>

RuleOutcomes ==
  << ReflectiveStoryteller, DecisiveVisionary, ThoughtfulAnalyst,
     PhilosophicalObserver >>

\* two sessions have the same average of a tone value
SameMean(m) ==
  IF Len(answers) = 0 \/ Len(answers2) = 0
  THEN Len(answers) = Len(answers2)
  ELSE SumOfTone(answers, m) * Len(answers2)
         = SumOfTone(answers2, m) * Len(answers)

\* ------------------------------------------------------------------------
\* C11 - the dominant emotion (specification SpecProfile)
\* ------------------------------------------------------------------------

\* C11: for a non-empty answer sequence the dominant emotion of the profile
\* is an emotion of the highest frequency in the sequence and, among the
\* emotions of that frequency, the one met first in the answer order
C11_DominantIsFirstMostFrequent ==
  Returned(profile) /\ answers # <<>> =>
    LET d == DominantOf(profile)
    IN  /\ d \in EmotionsOf(answers)
        /\ \A e \in EmotionsOf(answers) :
             /\ Frequency(answers, e) <= Frequency(answers, d)
             /\ Frequency(answers, e) = Frequency(answers, d)
                  => FirstAt(answers, d) <= FirstAt(answers, e)

\* the example of the claim: [joy, sadness] gives joy
C11_Witness ==
  /\ Returned(profile)
  /\ Len(answers) = 2
  /\ answers[1].emotionDetected = "joy"
  /\ answers[2].emotionDetected = "sadness"
  /\ DominantOf(profile) = "joy"

\* ------------------------------------------------------------------------
\* C12 - the archetype rules are an ordered decision list
\* ------------------------------------------------------------------------

\* C12: archetype, motivational type and communication mode are together
\* those of the first rule, top to bottom, whose condition holds, and the
\* defaults of 'The Balanced Explorer' when no condition holds
C12_FirstRuleThatHoldsDecides ==
  Returned(profile) =>
    LET held == ToneRulesHeld(answers, drift)
                  \o <<ObserverRule(DominantOf(profile))>>
        first == {i \in 1..4 : held[i] /\ \A j \in 1..(i - 1) : ~held[j]}
    IN  IF first = {}
        THEN ChosenOf(profile) = BalancedExplorer
        ELSE \A i \in first : ChosenOf(profile) = RuleOutcomes[i]

\* the first and the second rule both hold, and the first one decides
C12_Witness ==
  /\ Returned(profile)
  /\ ToneRulesHeld(answers, drift)[1]
  /\ ToneRulesHeld(answers, drift)[2]
  /\ ChosenOf(profile) = ReflectiveStoryteller

\* ------------------------------------------------------------------------
\* C13 - what the archetype depends on (two sessions, SpecProfilePair)
\* ------------------------------------------------------------------------

\* C13 as stated: two (non-empty) sessions with equal mean confidence, energy,
\* verbosity, hesitation and authenticity receive the same archetype, and a
\* session that satisfies none of the tone-threshold rules receives the
\* default archetype
C13_ArchetypeFromMeansAlone ==
  /\ ( /\ Returned(profile) /\ Returned(profile2)
       /\ answers # <<>> /\ answers2 # <<>>
       /\ drift = drift2
       /\ (\A m \in {"confidence", "energy", "verbosity", "hesitation",
                      "authenticity"} : SameMean(m)) )
       => ChosenOf(profile).archetype = ChosenOf(profile2).archetype
  /\ ( /\ Returned(profile)
       /\ answers # <<>>
       /\ (\A i \in 1..3 : ~ToneRulesHeld(answers, drift)[i]) )
       => ChosenOf(profile) = BalancedExplorer

\* C13: two sessions with equal mean confidence, verbosity, hesitation and
\* authenticity and the same dominant emotion receive the same archetype; a
\* session that satisfies none of the three tone-threshold rules receives
\* 'The Philosophical Observer' when its dominant emotion is contemplative or
\* neutral and the default archetype otherwise
C13_ArchetypeFromMeansAndDominantEmotion ==
  /\ ( /\ Returned(profile) /\ Returned(profile2)
       /\ drift = drift2
       /\ (\A m \in {"confidence", "verbosity", "hesitation",
                      "authenticity"} : SameMean(m))
       /\ DominantOf(profile) = DominantOf(profile2) )
       => ChosenOf(profile) = ChosenOf(profile2)
  /\ ( /\ Returned(profile)
       /\ (\A i \in 1..3 : ~ToneRulesHeld(answers, drift)[i]) )
       => ChosenOf(profile) =
            IF DominantOf(profile) \in {"contemplative", "neutral"}
            THEN PhilosophicalObserver
            ELSE BalancedExplorer

\* two different sessions with the same means and the same dominant emotion,
\* none of the tone rules holding: both are 'The Philosophical Observer'
C13_Witness ==
  /\ Returned(profile) /\ Returned(profile2)
  /\ Len(answers) = 1 /\ Len(answers2) = 2
  /\ (\A m \in {"confidence", "verbosity", "hesitation", "authenticity"} :
        SameMean(m))
  /\ DominantOf(profile) = "neutral" /\ DominantOf(profile2) = "neutral"
  /\ (\A i \in 1..3 : ~ToneRulesHeld(answers, drift)[i])
  /\ ChosenOf(profile) = PhilosophicalObserver
  /\ ChosenOf(profile2) = PhilosophicalObserver

\* ------------------------------------------------------------------------
\* C14 - the empty answer sequence
\* ------------------------------------------------------------------------

\* C14 as stated: the aggregator called with an empty answer sequence returns
\* no profile (it signals a contract violation instead)
C14_EmptyAnswersGiveNoProfile ==
  answers = <<>> => ~Returned(profile)

\* ------------------------------------------------------------------------
\* C15 - two calls on the same list
\* ------------------------------------------------------------------------

C16_ProfileStepRunsOnce == profileRuns <= 1

\* C17: no two answers of a session carry the same questionId
C17_QuestionIdsUnique ==
  \A i \in DOMAIN responses : \A j \in DOMAIN responses :
    (responses[i].questionId = responses[j].questionId) => (i = j)

\* the calls and timers a submission waits for until the component accepts
\* the next one
SubmissionSteps ==
  {"generateNextQuestion", "setTimeout", "insert", "continueConversation", "typing"}

SubmissionsInFlight ==
  {i \in DOMAIN pending : pending[i].step \in SubmissionSteps}

\* the completion the components report: the profile step has started, the
\* session was handed to onComplete, the conversation state is complete
ReportedComplete ==
  CASE flow \in {"enhanced", "psychological"} -> profileRuns >= 1
    [] flow = "session" -> delivered # <<>>
    [] OTHER -> conversationState # NoConversation /\ conversationState.isComplete

\* the answers of the run: the responses of the session, the messages of the
\* user in a conversation
NumberOfAnswers ==
  IF flow = "conversational"
  THEN IF conversationState = NoConversation THEN 0
       ELSE Len(UserContents(conversationState.messages))
  ELSE Len(responses)

\* C18, as stated: a session is reported complete only with 9 answers in the
\* foundational and enhanced flows and with at least 8 in the other flows
C18_CompleteOnlyWithEightOrNine ==
  ReportedComplete =>
    NumberOfAnswers >= (IF flow \in {"enhanced", "psychological"} THEN 9 ELSE 8)

\* C18: a session is reported complete only with 9 answers in the
\* foundational and enhanced flows, with 8 messages of the user in a
\* conversation, and in a PsychologySession with 8 answers or, when it holds
\* fewer than 8 questions, with as many answers as questions
C18_CompleteOnlyAtThreshold ==
  ReportedComplete =>
    NumberOfAnswers >= (CASE flow \in {"enhanced", "psychological"} -> 9
                          [] flow = "session" -> Min(8, Len(questions))
                          [] OTHER -> 8)

\* a PsychologySession of fewer than 8 questions handed to onComplete with an
\* answer for each
C18_Witness ==
  /\ flow = "session"
  /\ delivered # <<>>
  /\ Len(questions) < 8
  /\ Len(responses) = Len(questions)

\* C19: answer submission is serialized, at most one submission is in flight
\* at a time in every questionnaire component
C19_OneSubmissionInFlight == Cardinality(SubmissionsInFlight) <= 1

\* the questions generateNextQuestion appended
AppendedQuestions ==
  IF flow = "enhanced"
  THEN {questions[k] : k \in (Len(FOUNDATIONAL_QUESTIONS) + 1)..Len(questions)}
  ELSE {}

\* C20: when the remote generation of the next question fails, the question
\* appended is one of the fallback questions: every appended question is the
\* question the service answered or one of the fallback questions
C20_FailureAppendsFallbackQuestion ==
  \A q \in AppendedQuestions :
    \/ q.text = StripQuotes(Trim(RemoteQuestion))
    \/ \E k \in DOMAIN fallbackQuestions : q.text = fallbackQuestions[k]

\* ------------------------------------------------------------------------
\* Failures of the generation service and of the storage
\* ------------------------------------------------------------------------

\* C21: a failure of the remote generation call in startConversation or in
\* continueConversation is recovered with a fallback value: the step in which
\* the failing call returns leaves the conversation component without error
C21_GenerationFailureIsRecovered ==
  [][(\/ StartConversationReturnsWith("generation failed")
      \/ ContinueConversationReturnsWith("generation failed"))
       => error' = ""]_vars

\* C22: when storing an answer or a conversation message fails, the flow
\* continues: the session advances to the next question and the conversation
\* component shows no error
C22_StorageFailureContinues ==
  [][/\ SessionInsertReturnsWith(TRUE)
          => currentQuestionIndex' = currentQuestionIndex + 1
     /\ ContinueConversationReturnsWith("save failed") => error' = ""]_vars

\* C23: without a configured client (demo mode) the flow remains functional:
\* the step in which startConversation stores its first message, the service
\* having answered, starts the conversation
C23_DemoModeStartsConversation ==
  [][(supabase = "null" /\ StartConversationReturnsWith("save failed"))
       => conversationState' # NoConversation]_vars

\* C27: after any sequence of PsychologySession.submitAnswer calls, successful
\* or failing, the number of responses equals currentQuestionIndex
C27_ResponsesEqualIndex ==
  (flow = "session" /\ pending = <<>>) => Len(responses) = currentQuestionIndex

\* the order introduction < basic_info < deep_questions < completion
PhaseRank(phase) ==
  CASE phase = "introduction" -> 0
    [] phase = "basic_info" -> 1
    [] phase = "deep_questions" -> 2
    [] phase = "completion" -> 3

\* the states continueConversation returns from the current state of the
\* conversation, for every message and every analysis of it
NextConversationStates ==
  IF conversationState = NoConversation THEN {}
  ELSE UNION { { continueConversation(conversationState, typed, analysis).state :
                   analysis \in ConversationalAnalyzeUserResponse(typed) } :
               typed \in {Trim(t) : t \in ConversationTexts} \ {""} }

\* C29: along a conversation currentPhase never moves backwards, and once
\* isComplete is true it remains true: every state continueConversation
\* returns from a state of the conversation is at the same phase or a later
\* one, and is complete when that state is
C29_PhaseNeverMovesBackwards ==
  \A next \in NextConversationStates :
    /\ PhaseRank(next.currentPhase) >= PhaseRank(conversationState.currentPhase)
    /\ conversationState.isComplete => next.isComplete

\* a complete conversation that went through every phase: the name and the
\* birth date were extracted before the 8th message
C29_Witness ==
  /\ conversationState # NoConversation
  /\ conversationState.isComplete
  /\ conversationState.currentPhase = "completion"
  /\ conversationState.extractedData.name # ""
  /\ conversationState.extractedData.birthDate # ""

\* the profiles EnhancedPsychQuestionnaire handed to onComplete
DeliveredProfiles ==
  IF flow = "enhanced"
  THEN {delivered[k].psych_profile : k \in DOMAIN delivered}
  ELSE {}

\* C24: a malformed or non-JSON response of the generation service is mapped
\* to the fixed fallback profile: analyzePsychologicalProfile returns the
\* profile the service sent or the fallback profile, and nothing else
C24_MalformedResponseGivesFallback ==
  \A returned \in DeliveredProfiles :
    returned = RemoteProfile \/ returned = FallbackProfile

\* ------------------------------------------------------------------------
\* C26: isLoading while the asyncFn of handleAsyncError runs
\* ------------------------------------------------------------------------

\* C26: when handleAsyncError has started its asyncFn, the isLoading of the
\* store is true
C26_LoadingWhileAsyncFnRuns == [][HandleAsyncError => appStore'.isLoading]_vars

\* ------------------------------------------------------------------------
\* C30: the states of the app store
\* ------------------------------------------------------------------------

\* C30: in every state its actions lead the store to, isLoading and an
\* error that is not null never hold together, and isAuthenticated is true
\* exactly when user is not null
C30_StoreConsistent ==
  /\ ~(appStore.isLoading /\ appStore.error # Null)
  /\ appStore.isAuthenticated <=> appStore.user # NoUser

\* a logged-in user, with an error recorded after a loading with a message
C30_Witness ==
  /\ appStore.isAuthenticated
  /\ appStore.error # Null
  /\ appStore.loadingMessage # ""

\* ------------------------------------------------------------------------
\* C25: generateFinalReport and the local list of reports
\* ------------------------------------------------------------------------

NotStored(entry) == entry.outcome # "stored"

Stored(entry) == entry.outcome = "stored"

\* the reports of the entries of a log, in its order
ReportsOf(log) == [k \in DOMAIN log |-> log[k].report]

\* C25: every call of generateFinalReport that ended returned a report; the
\* local list 'astropsyche_reports' holds, once each and in the order of
\* their return, the reports that were not stored in the database (no
\* client, insert answered with an error, insert threw), and the table
\* holds the others
C25_ReportLocalIffNotStored ==
  /\ \A k \in DOMAIN reports : reports[k].report # NoReport
  /\ localStorage.astropsyche_reports = ReportsOf(SelectSeq(reports, NotStored))
  /\ database.final_reports = ReportsOf(SelectSeq(reports, Stored))

\* a report that was stored after one whose insert threw
C25_Witness ==
  /\ Len(reports) = 2
  /\ reports[1].outcome = "threw"
  /\ reports[2].outcome = "stored"

\* ------------------------------------------------------------------------
\* C28: the calls made for a user createUser wrote to the local storage
\* ------------------------------------------------------------------------

\* the step starts a call of updateUserProfile, shareReport or getUserReports
\* for the user of the store
HookCallStarts ==
  /\ UpdateUserProfile \/ ShareReport \/ GetUserReports
  /\ Len(asyncCalls') = Len(asyncCalls) + 1

\* C28: a call of updateUserProfile, shareReport or getUserReports for a user
\* that createUser wrote to the local storage after the database failed runs
\* to its end on the local storage, without a request to the database
C28_FallbackUserHandledLocally ==
  [][(FellBack(appStore.user) /\ HookCallStarts)
       => asyncCalls'[Len(asyncCalls')].mode = "resolved"]_vars

====
